---- MODULE Spec2Model ----
(***************************************************************************)
(* Model of the virtual pod manager                                        *)
(* (src/topology/annotations/virtual_pod_manager.py): the Registry (in     *)
(* memory and on file), the remote resources the manager creates through   *)
(* docker exec (pods, artifact files, replayer processes, namespaces) and  *)
(* the create / delete handlers, one action per docker exec call.          *)
(***************************************************************************)
EXTENDS Integers, Sequences, FiniteSets, TLC

\* ------------------------------------------------------------------ bounds

\* Largest numeric pod id a create may be started for.
MaxPodId == 3

\* Number of docker exec calls, over a run, that end in a non-zero return
\* code or raise (SpecTwoFaults allows one more).
MaxFaults == 1

\* ------------------------------------------------------------------ inputs

\* Arguments of create_virtual_pod: source_node, dest_node, workload_file
\* and interval.
CreateArgs ==
    {[source_node |-> "serf1", dest_node |-> "serf2",
      workload_file |-> "workload_templates/workload-light.json", interval |-> 10]}

\* What one docker exec call can do: return code 0, a non-zero return
\* code, or subprocess.run raising (docker_exec re-raises).
Outcomes == {"ok", "fail", "raise"}

\* ------------------------------------------------------- strings, numbers

DigitChars == <<"0", "1", "2", "3", "4", "5", "6", "7", "8", "9">>

DigitVal(c) == (CHOOSE i \in 1..10 : DigitChars[i] = c) - 1

\* str(n) for n >= 0.
RECURSIVE Str(_)
Str(n) ==
    IF n < 10 THEN <<DigitChars[n + 1]>>
    ELSE Str(n \div 10) \o <<DigitChars[(n % 10) + 1]>>

\* f"{n:03d}": decimal digits, zero-padded on the left to width 3.
Fmt03(n) ==
    LET s == Str(n)
    IN  IF Len(s) >= 3 THEN s
        ELSE [i \in 1..(3 - Len(s)) |-> "0"] \o s

\* int(s) for a string of decimal digits.
RECURSIVE ParseInt(_)
ParseInt(s) ==
    IF s = <<>> THEN 0
    ELSE ParseInt(SubSeq(s, 1, Len(s) - 1)) * 10 + DigitVal(s[Len(s)])

\* s.split(sep)[-1]: what follows the last occurrence of sep.
SplitLast(s, sep) ==
    LET at == {i \in 1..Len(s) : s[i] = sep}
    IN  IF at = {} THEN s
        ELSE SubSeq(s, (CHOOSE i \in at : \A j \in at : j <= i) + 1, Len(s))

MinOf(S) == CHOOSE x \in S : \A y \in S : x <= y

\* max(...)
MaxOf(S) == CHOOSE x \in S : \A y \in S : y <= x

\* f"vp-{pod_id:03d}"
PodIdStr(n) == <<"v", "p", "-">> \o Fmt03(n)

\* f"virtual-pod-{pod_id:03d}"
BaseName(n) == <<"virtual-pod-">> \o Fmt03(n)

SourcePodName(n) == BaseName(n) \o <<"-source">>

DestPodName(n) == BaseName(n) \o <<"-dest">>

\* f"/opt/annotations/virtual_pods/{pod_id_str}.json"
JsonPath(n) == <<"/opt/annotations/virtual_pods/">> \o PodIdStr(n) \o <<".json">>

\* ------------------------------------------------------------------ state

VARIABLES
    registry,       \* self.registry['virtual_pods']: sequence of records
    registry_file,  \* contents of registry.json
    namespaces,     \* nodes on which namespace liqo exists
    pods,           \* <<node, pod name>> of the pods that exist
    files,          \* <<node, path>> of the artifact files that exist
    procs,          \* <<node, pid>> of the running replayer processes
    annotations,    \* per pod that exists, its metric annotations
    virtual_replayers,  \* per running replayer process, its config and tick
    pc,             \* position of the manager in its current handler
    cur,            \* locals of the current (or last) handler invocation
    todo,           \* cleanup commands still to issue
    cmds,           \* docker exec calls of the current (or last) invocation
    ret,            \* how the last invocation ended
    faults,         \* docker exec calls that failed or raised so far
    budget,         \* how many docker exec calls may fail or raise
    before,         \* Registry (memory, file) when the invocation started
    steps,          \* steps of the creation pipeline that succeeded
    provenance,     \* per id, the steps that had succeeded when it was appended
    replayer,       \* the replayer object: which program, its options, its config
    main_pc,        \* position of the replayer's main thread in run()
    iteration,      \* run(): iteration
    time_index,     \* run(): time_index of the for loop
    stats,          \* self.stats
    stats_lock,     \* self.stats_lock: 0 when free, else the work item holding it
    semaphore,      \* self.semaphore: permits left
    pod_batches,    \* replay_timepoint(): pod_batches (pods by position in the config)
    futures,        \* per submitted work item, the position and locals of its call
    interrupted,    \* KeyboardInterrupt was raised in the main thread
    ticks,          \* time_index of every replay_timepoint call so far
    patched,        \* pods whose patch succeeded in the current tick
    attempted,      \* pods whose patch was called in the current tick
    patches,        \* the patches issued in the current tick: pod and body
    report,         \* the counters as read for the tick's report line
    cache_initialized,  \* collector: self.cache_initialized
    metrics_lock,       \* collector: who holds self.metrics_lock ("none": free)
    pod_metrics,        \* collector: self.pod_metrics (SpecCollect: the cycle that computed it)
    node_metrics,       \* collector: self.node_metrics, likewise
    real_node_metrics,  \* collector: self.real_node_metrics, likewise
    updater_pc,         \* position of the thread that calls update_metrics
    handler_pc,         \* position of the HTTP handler in get_prometheus_metrics
    cycle,              \* number of update_metrics calls so far
    fresh,              \* update_metrics: the maps computed by the current call
    rendered,           \* cycle of each map the current (or last) rendering read
    cache_cycles,       \* cycles in which initialize_pod_node_cache ran
    results,            \* what each finished update_metrics call returned
    collector,          \* collector: what load_config took from the config file
    current_time_index, \* collector: self.current_time_index
    cluster,            \* what the API server answered in the current (or last) cycle
    index_before,       \* self.current_time_index when the cycle began
    exposition,         \* the text get_prometheus_metrics returned last
    creator,            \* reconciler: the configuration and flags it is run with
    kube,               \* the nodes, namespaces and pods of the control plane
    rc_pc,              \* reconciler: the loop it is in, or how it ended
    rc_i,               \* reconciler: resources of the current loop dealt with
    existing_namespaces, \* reconciler: create_namespaces' existing_namespaces
    calls,              \* create, apply and delete commands issued, in order
    reported,           \* what the reconciler said of each resource, in order
    passes,             \* creation passes that came to their end
    kube_first,         \* the control plane after the first creation pass
    cli,                \* replayer command line: program, flags, answers
    cli_pc,             \* replayer main: the step it is at
    all_found,          \* replayer main: what verification returned
    exit_code,          \* replayer main: the exit code, -1 while it runs
    update_interval,    \* collector: --update-interval
    stop_flag,          \* collector: stop_flag['stop']
    thread_pc,          \* metrics_updater: the statement it is at
    slept,              \* metrics_updater: iterations of the sleep loop done
    begun,              \* metrics_updater: update cycles begun
    begun_after_stop,   \* update cycles begun since the flag was set
    slept_after_stop    \* one-second sleeps begun since the flag was set

vars == <<registry, registry_file, namespaces, pods, files, procs,
          annotations, virtual_replayers, pc, cur,
          todo, cmds, ret, faults, budget, before, steps, provenance,
          replayer, main_pc, iteration, time_index, stats, stats_lock,
          semaphore, pod_batches, futures, interrupted, ticks, patched,
          attempted, patches, report, cache_initialized, metrics_lock, pod_metrics,
          node_metrics, real_node_metrics, updater_pc, handler_pc, cycle,
          fresh, rendered, cache_cycles, results, collector,
          current_time_index, cluster, index_before, exposition,
          creator, kube, rc_pc, rc_i, existing_namespaces, calls, reported,
          passes, kube_first, cli, cli_pc, all_found, exit_code,
          update_interval, stop_flag, thread_pc, slept, begun,
          begun_after_stop, slept_after_stop>>

remote == <<namespaces, pods, files, procs, annotations, virtual_replayers>>

\* State of the replayer programs.
replay_vars == <<replayer, main_pc, iteration, time_index, stats, stats_lock,
                 semaphore, pod_batches, futures, interrupted, ticks, patched,
                 attempted, patches, report>>

\* State of the manager program.
manager_vars == <<registry, registry_file, remote, pc, cur, todo, cmds, ret,
                  faults, budget, before, steps, provenance>>

\* The collector's configuration, time index and text, and what it is
\* given by the API server.
data_vars == <<collector, current_time_index, cluster, index_before, exposition>>

\* State of the metrics collector.
collect_vars == <<cache_initialized, metrics_lock, pod_metrics, node_metrics,
                  real_node_metrics, updater_pc, handler_pc, cycle, fresh,
                  rendered, cache_cycles, results, data_vars>>

\* State of the reconciler.
reconcile_vars == <<creator, kube, rc_pc, rc_i, existing_namespaces, calls,
                    reported, passes, kube_first>>

\* State of a replayer's main.
cli_vars == <<cli, cli_pc, all_found, exit_code>>

\* State of the command-line programs run once.
\* State of the collector's updater thread and its stop flag.
updater_vars == <<update_interval, stop_flag, thread_pc, slept, begun,
                  begun_after_stop, slept_after_stop>>

\* State of the programs modelled last.
more_vars == <<updater_vars>>

tools_vars == <<reconcile_vars, cli_vars, more_vars>>

\* State of the programs other than the manager.
other_vars == <<replay_vars, collect_vars, tools_vars>>

\* ------------------------------------------------------- registry on file

\* Fields of a registry record whose value is a Python int.
IntKeys == {"interval"}

JsonNumber(n) == [type |-> "number", text |-> Str(n)]

JsonString(s) == [type |-> "string", text |-> s]

\* json.dump of one record: every value becomes a JSON token.
JsonDumpRecord(r) ==
    [k \in DOMAIN r |-> IF k \in IntKeys THEN JsonNumber(r[k]) ELSE JsonString(r[k])]

\* json.load of one JSON object.
JsonLoadRecord(o) ==
    [k \in DOMAIN o |-> IF o[k].type = "number" THEN ParseInt(o[k].text) ELSE o[k].text]

\* json.dump(self.registry): the document {"virtual_pods": [...]}.
JsonDump(reg) == [i \in 1..Len(reg) |-> JsonDumpRecord(reg[i])]

JsonLoad(doc) == [i \in 1..Len(doc) |-> JsonLoadRecord(doc[i])]

\* A save that would write a document without records.
SavedFileEmpty(reg) == [state |-> "json", doc |-> <<>>]

\* The file save_registry leaves behind.
SavedFile(reg) == [state |-> "json", doc |-> JsonDump(reg)]

\* self.registry after load_registry, for a manager whose registry is the
\* constructor's {"virtual_pods": []}.
LoadRegistryKeepsDefault(file) == <<>>

LoadRegistry(file) ==
    IF file.state = "json" THEN JsonLoad(file.doc) ELSE <<>>

\* The file after load_registry: created by save_registry when missing.
FileAfterLoad(file) ==
    IF file.state = "absent" THEN SavedFile(<<>>) ELSE file

\* ------------------------------------------------------- get_next_pod_id

IdNumber(vp) == ParseInt(SplitLast(vp.id, "-"))

GetNextPodIdByCount(reg) == Len(reg) + 1

GetNextPodId(reg) ==
    IF reg = <<>> THEN 1
    ELSE MaxOf({IdNumber(reg[i]) : i \in 1..Len(reg)}) + 1

\* --------------------------------------------------------- docker exec

\* The return code of one docker exec call (or "raise"), from what the
\* call does (out) and what the command finds on the node.
Rc(cmd, node, arg, out) ==
    IF out = "raise" THEN "raise"
    ELSE IF out = "fail" THEN "1"
    ELSE IF cmd = "get_ns" THEN (IF node \in namespaces THEN "0" ELSE "1")
    ELSE IF cmd = "delete_pod" THEN (IF <<node, arg>> \in pods THEN "0" ELSE "1")
    ELSE IF cmd = "kill" THEN (IF <<node, arg>> \in procs THEN "0" ELSE "1")
    ELSE "0"

\* The function f with x mapped to v, and f without x.
With(f, x, v) == [y \in DOMAIN f \cup {x} |-> IF y = x THEN v ELSE f[y]]

Without(f, x) == [y \in DOMAIN f \ {x} |-> f[y]]

\* The metric annotations both pods of a pair are created with; the pod
\* has no time_index annotation yet.
ZeroAnnotations ==
    [cpu |-> <<"0", "m">>, memory |-> <<"0", "M", "i">>, power |-> <<"0", ".", "0">>,
     psi |-> <<"0", ".", "0">>, time_index |-> <<>>]

\* workload_data['time_series'] of the workload file.
WorkloadSeries ==
    <<[cpu |-> 100, memory |-> 20, power |-> 5, psi |-> 10],
      [cpu |-> 250, memory |-> 40, power |-> 7, psi |-> 20]>>

\* A configuration that would name the source pod.
ConfigPodNameSource(n) == SourcePodName(n)

\* virtual_pod_config['pod_name']
ConfigPodName(n) == DestPodName(n)

\* replay_virtual_pod.py --config <the file of pod n> --loop, as started:
\* the pod and the series of its config, and the tick it is at.
VirtualPodReplayer(n) ==
    [pod_name |-> ConfigPodName(n), time_series |-> WorkloadSeries, time_index |-> 0]

\* docker_exec: the call is logged, and a call that returns 0 has the
\* command's effect on the node.
DockerExec(cmd, node, arg, out) ==
    LET rc == Rc(cmd, node, arg, out)
        done == rc = "0"
    IN  /\ out # "ok" => faults < budget
        /\ faults' = IF out = "ok" THEN faults ELSE faults + 1
        /\ UNCHANGED <<budget, other_vars, other_vars>>
        /\ cmds' = Append(cmds, [cmd |-> cmd, node |-> node, arg |-> arg, rc |-> rc])
        /\ namespaces' = IF done /\ cmd = "apply_ns" THEN namespaces \cup {node}
                         ELSE namespaces
        /\ pods' = IF done /\ cmd = "apply_pod" THEN pods \cup {<<node, arg>>}
                   ELSE IF done /\ cmd = "delete_pod" THEN pods \ {<<node, arg>>}
                   ELSE pods
        /\ files' = IF done /\ cmd = "write_file" THEN files \cup {<<node, arg>>}
                    ELSE IF done /\ cmd = "rm" THEN files \ {<<node, arg>>}
                    ELSE files
        /\ procs' = IF done /\ cmd = "start_replayer" THEN procs \cup {<<node, arg>>}
                    ELSE IF done /\ cmd = "kill" THEN procs \ {<<node, arg>>}
                    ELSE procs
        /\ annotations' =
               IF done /\ cmd = "apply_pod" THEN With(annotations, <<node, arg>>, ZeroAnnotations)
               ELSE IF done /\ cmd = "delete_pod" THEN Without(annotations, <<node, arg>>)
               ELSE annotations
        /\ virtual_replayers' =
               IF done /\ cmd = "start_replayer"
               THEN With(virtual_replayers, <<node, arg>>, VirtualPodReplayer(cur.pod_id))
               ELSE IF done /\ cmd = "kill" THEN Without(virtual_replayers, <<node, arg>>)
               ELSE virtual_replayers

\* The pid echo $! prints for a process started on node: one no running
\* replayer of the node has.
FreshPid(node) ==
    LET free == {k \in 0..((MaxFaults + 1) * MaxPodId) : <<node, Str(101 + k)>> \notin procs}
    IN  Str(101 + (CHOOSE k \in free : \A j \in free : k <= j))

\* An uncaught exception ends the handler (and the process) on the spot.
Raised ==
    /\ pc' = "idle"
    /\ ret' = "raised"
    /\ todo' = <<>>
    /\ UNCHANGED <<registry, registry_file, cur, before, steps, provenance>>

\* return False
ReturnFalse ==
    /\ pc' = "idle"
    /\ ret' = "False"
    /\ todo' = <<>>
    /\ UNCHANGED <<registry, registry_file, cur, before, steps, provenance>>

\* The handler goes on at position p, step n of the pipeline done (0: none).
GoOn(p, n) ==
    /\ pc' = p
    /\ steps' = IF n = 0 THEN steps ELSE steps \cup {n}
    /\ UNCHANGED <<registry, registry_file, cur, todo, ret, before, provenance>>

\* The handler goes on to issue the cleanup commands cs.
StartCleanup(cs) ==
    /\ pc' = "cleanup"
    /\ todo' = cs
    /\ UNCHANGED <<registry, registry_file, cur, ret, before, steps, provenance>>

\* Ids a record was ever appended with.
assigned == {p.id : p \in provenance}

NoCall ==
    [op |-> "none", pod_id |-> 0, source_node |-> "", dest_node |-> "",
     workload_file |-> "", interval |-> 0, replayer_pid |-> <<>>,
     target |-> <<>>, vp |-> <<>>]

\* The process has not ended by an exception, by sys.exit or by being stopped.
Alive == ret \notin {"raised", "exit", "stopped"}

\* No replayer runs.
ReplayerIdle ==
    /\ replayer = [variant |-> "none"]
    /\ main_pc = "none"
    /\ iteration = 0
    /\ time_index = 0
    /\ stats = [success |-> 0, failed |-> 0]
    /\ stats_lock = 0
    /\ semaphore = 0
    /\ pod_batches = <<>>
    /\ futures = <<>>
    /\ interrupted = FALSE
    /\ ticks = <<>>
    /\ patched = {}
    /\ attempted = {}
    /\ patches = {}
    /\ report = <<>>

\* No render has read anything yet.
NothingRendered == [pod |-> -1, node |-> -1, real |-> -1]

\* The collector's data are left out.
DataIdle ==
    /\ collector = [mode |-> "none"]
    /\ current_time_index = 0
    /\ cluster = [pods |-> <<>>]
    /\ index_before = 0
    /\ exposition = <<>>

\* No reconciler runs.
ReconcilerIdle ==
    /\ creator = [op |-> "none"]
    /\ kube = {}
    /\ rc_pc = "none"
    /\ rc_i = 0
    /\ existing_namespaces = {}
    /\ calls = <<>>
    /\ reported = <<>>
    /\ passes = 0
    /\ kube_first = {}

\* No replayer's main runs.
CliIdle ==
    /\ cli = [program |-> "none"]
    /\ cli_pc = "none"
    /\ all_found = "unset"
    /\ exit_code = -1

\* No updater thread runs.
UpdaterIdle ==
    /\ update_interval = 0
    /\ stop_flag = FALSE
    /\ thread_pc = "none"
    /\ slept = 0
    /\ begun = 0
    /\ begun_after_stop = 0
    /\ slept_after_stop = 0

MoreIdle == UpdaterIdle

ToolsIdle == ReconcilerIdle /\ CliIdle /\ MoreIdle

\* No collector runs.
CollectorIdle ==
    /\ DataIdle
    /\ cache_initialized = FALSE
    /\ metrics_lock = "none"
    /\ pod_metrics = 0
    /\ node_metrics = 0
    /\ real_node_metrics = 0
    /\ updater_pc = "none"
    /\ handler_pc = "none"
    /\ cycle = 0
    /\ fresh = 0
    /\ rendered = NothingRendered
    /\ cache_cycles = {}
    /\ results = <<>>

ManagerInit(b) ==
    /\ registry = <<>>
    /\ registry_file = SavedFile(<<>>)
    /\ namespaces = {}
    /\ pods = {}
    /\ files = {}
    /\ procs = {}
    /\ annotations = [p \in {} |-> <<>>]
    /\ virtual_replayers = [p \in {} |-> <<>>]
    /\ pc = "idle"
    /\ cur = NoCall
    /\ todo = <<>>
    /\ cmds = <<>>
    /\ ret = "none"
    /\ faults = 0
    /\ budget = b
    /\ before = [registry |-> <<>>, file |-> SavedFile(<<>>)]
    /\ steps = {}
    /\ provenance = {}

InitWith(b) == ManagerInit(b) /\ ReplayerIdle /\ CollectorIdle /\ ToolsIdle

\* ------------------------------------------------- create_virtual_pod

DeleteSourceCmd(c) ==
    [cmd |-> "delete_pod", node |-> c.source_node, arg |-> SourcePodName(c.pod_id)]

DeleteDestCmd(c) ==
    [cmd |-> "delete_pod", node |-> c.dest_node, arg |-> DestPodName(c.pod_id)]

RemoveFileCmd(c) ==
    [cmd |-> "rm", node |-> c.dest_node, arg |-> JsonPath(c.pod_id)]

\* The cleanup after a failed step 4, 5 and 6.
CleanupDestFailed(c) == <<DeleteSourceCmd(c)>>

CleanupFileFailed(c) == <<DeleteSourceCmd(c), DeleteDestCmd(c)>>

CleanupReplayerFailedNoDest(c) == <<DeleteSourceCmd(c), RemoveFileCmd(c)>>

CleanupReplayerFailed(c) == <<DeleteSourceCmd(c), DeleteDestCmd(c), RemoveFileCmd(c)>>

\* start_replayer_in_container's result: stdout on return code 0, else None.
ReplayerPid(rc, stdout) == IF rc = "0" THEN stdout ELSE <<>>

\* "if not replayer_pid"
NoReplayerNever(pid) == FALSE

NoReplayer(pid) == pid = <<>>

CreateStart(args) ==
    /\ pc = "idle"
    /\ Alive
    /\ GetNextPodId(registry) <= MaxPodId
    /\ cur' = [NoCall EXCEPT !.op = "create", !.pod_id = GetNextPodId(registry),
                             !.source_node = args.source_node,
                             !.dest_node = args.dest_node,
                             !.workload_file = args.workload_file,
                             !.interval = args.interval]
    /\ pc' = "load_workload"
    /\ ret' = "running"
    /\ cmds' = <<>>
    /\ todo' = <<>>
    /\ steps' = {}
    /\ before' = [registry |-> registry, file |-> registry_file]
    /\ UNCHANGED <<registry, registry_file, remote, faults, budget, other_vars, provenance>>

\* Step 1; a missing or invalid workload file is sys.exit(1).
LoadWorkload(ok) ==
    /\ pc = "load_workload"
    /\ IF ok THEN GoOn("ns_get_src", 1)
       ELSE /\ pc' = "idle"
            /\ ret' = "exit"
            /\ UNCHANGED <<registry, registry_file, cur, todo, before, steps,
                           provenance>>
    /\ UNCHANGED <<remote, cmds, faults, budget, other_vars>>

NsNode(side) == IF side = "src" THEN cur.source_node ELSE cur.dest_node

AfterNs(side) ==
    IF side = "src" THEN GoOn("ns_get_dst", 0) ELSE GoOn("create_source", 2)

\* Step 2, ensure_namespace: kubectl get namespace.
NsGet(side, out) ==
    /\ pc = "ns_get_" \o side
    /\ DockerExec("get_ns", NsNode(side), <<"liqo">>, out)
    /\ LET rc == Rc("get_ns", NsNode(side), <<"liqo">>, out)
       IN  IF rc = "raise" THEN Raised
           ELSE IF rc = "0" THEN AfterNs(side)
           ELSE GoOn("ns_apply_" \o side, 0)

\* Step 2, ensure_namespace: kubectl apply of the namespace manifest.
NsApply(side, out) ==
    /\ pc = "ns_apply_" \o side
    /\ DockerExec("apply_ns", NsNode(side), <<"liqo">>, out)
    /\ LET rc == Rc("apply_ns", NsNode(side), <<"liqo">>, out)
       IN  IF rc = "raise" THEN Raised
           ELSE IF rc = "0" THEN AfterNs(side)
           ELSE ReturnFalse

\* Step 3: the source placeholder pod.
CreateSourcePod(out) ==
    /\ pc = "create_source"
    /\ DockerExec("apply_pod", cur.source_node, SourcePodName(cur.pod_id), out)
    /\ LET rc == Rc("apply_pod", cur.source_node, SourcePodName(cur.pod_id), out)
       IN  IF rc = "raise" THEN Raised
           ELSE IF rc = "0" THEN GoOn("create_dest", 3)
           ELSE ReturnFalse

\* Step 4: the destination pod.
CreateDestPod(out) ==
    /\ pc = "create_dest"
    /\ DockerExec("apply_pod", cur.dest_node, DestPodName(cur.pod_id), out)
    /\ LET rc == Rc("apply_pod", cur.dest_node, DestPodName(cur.pod_id), out)
       IN  IF rc = "raise" THEN Raised
           ELSE IF rc = "0" THEN GoOn("mkdir", 4)
           ELSE StartCleanup(CleanupDestFailed(cur))

\* Step 5, create_json_file_in_container: mkdir -p, its result unread.
Mkdir(out) ==
    /\ pc = "mkdir"
    /\ DockerExec("mkdir", cur.dest_node, <<"/opt/annotations/virtual_pods">>, out)
    /\ IF out = "raise" THEN Raised ELSE GoOn("write_file", 0)

\* Step 5, create_json_file_in_container: cat > filepath.
WriteFile(out) ==
    /\ pc = "write_file"
    /\ DockerExec("write_file", cur.dest_node, JsonPath(cur.pod_id), out)
    /\ LET rc == Rc("write_file", cur.dest_node, JsonPath(cur.pod_id), out)
       IN  IF rc = "raise" THEN Raised
           ELSE IF rc = "0" THEN GoOn("start_replayer", 5)
           ELSE StartCleanup(CleanupFileFailed(cur))

\* Step 6: the replayer, started in the background.
StartReplayer(out) ==
    /\ pc = "start_replayer"
    /\ LET stdout == FreshPid(cur.dest_node)
           rc == Rc("start_replayer", cur.dest_node, stdout, out)
           pid == ReplayerPid(rc, stdout)
       IN  /\ DockerExec("start_replayer", cur.dest_node, stdout, out)
           /\ IF rc = "raise" THEN Raised
              ELSE IF NoReplayer(pid) THEN StartCleanup(CleanupReplayerFailed(cur))
              ELSE /\ pc' = "update_registry"
                   /\ cur' = [cur EXCEPT !.replayer_pid = pid]
                   /\ steps' = IF rc = "0" THEN steps \cup {6} ELSE steps
                   /\ UNCHANGED <<registry, registry_file, todo, ret, before,
                                  provenance>>

\* One cleanup command; after the last one, return False.
Cleanup(out) ==
    /\ pc = "cleanup"
    /\ todo # <<>>
    /\ LET c == Head(todo)
           rc == Rc(c.cmd, c.node, c.arg, out)
       IN  /\ DockerExec(c.cmd, c.node, c.arg, out)
           /\ IF rc = "raise" THEN Raised
              ELSE IF Len(todo) = 1 THEN ReturnFalse
              ELSE /\ todo' = Tail(todo)
                   /\ UNCHANGED <<registry, registry_file, pc, cur, ret, before,
                                  steps, provenance>>

Timestamp == "2025-01-01T00:00:00"

\* A record that would not carry the replayer's pid.
VirtualPodEntryNoPid(c) ==
    [id |-> PodIdStr(c.pod_id),
     source_node |-> c.source_node,
     source_pod_name |-> SourcePodName(c.pod_id),
     dest_node |-> c.dest_node,
     dest_pod_name |-> DestPodName(c.pod_id),
     namespace |-> "liqo",
     kwok_node |-> "emulation-node-1",
     time_series_file |-> JsonPath(c.pod_id),
     workload_file |-> c.workload_file,
     created_at |-> Timestamp,
     status |-> "running",
     replayer_pid |-> <<>>,
     interval |-> c.interval]

VirtualPodEntry(c) ==
    [id |-> PodIdStr(c.pod_id),
     source_node |-> c.source_node,
     source_pod_name |-> SourcePodName(c.pod_id),
     dest_node |-> c.dest_node,
     dest_pod_name |-> DestPodName(c.pod_id),
     namespace |-> "liqo",
     kwok_node |-> "emulation-node-1",
     time_series_file |-> JsonPath(c.pod_id),
     workload_file |-> c.workload_file,
     created_at |-> Timestamp,
     status |-> "running",
     replayer_pid |-> c.replayer_pid,
     interval |-> c.interval]

\* Step 7: append the record, save the registry, return True.
UpdateRegistry ==
    /\ pc = "update_registry"
    /\ registry' = Append(registry, VirtualPodEntry(cur))
    /\ registry_file' = SavedFile(registry')
    /\ pc' = "idle"
    /\ ret' = "True"
    /\ provenance' = {p \in provenance : p.id # PodIdStr(cur.pod_id)}
                      \cup {[id |-> PodIdStr(cur.pod_id), steps |-> steps]}
    /\ UNCHANGED <<remote, cur, todo, cmds, faults, budget, other_vars, before, steps>>

\* ------------------------------------------------- delete_virtual_pod

\* A lookup that would not compare ids: the first record, whatever its id.
FindPodAnyId(reg, pod_id) == IF reg = <<>> THEN <<>> ELSE <<reg[1]>>

\* The first record with the id, as a sequence of length 0 (None) or 1.
FindPod(reg, pod_id) ==
    LET at == {i \in 1..Len(reg) : reg[i].id = pod_id}
    IN  IF at = {} THEN <<>>
        ELSE <<reg[CHOOSE i \in at : \A j \in at : i <= j]>>

\* A filter that would drop the first record, whatever its id.
DropFirst(reg, pod_id) == IF reg = <<>> THEN <<>> ELSE Tail(reg)

\* [p for p in self.registry['virtual_pods'] if p['id'] != pod_id]
RECURSIVE WithoutId(_, _)
WithoutId(reg, pod_id) ==
    IF reg = <<>> THEN <<>>
    ELSE IF Head(reg).id = pod_id THEN WithoutId(Tail(reg), pod_id)
    ELSE <<Head(reg)>> \o WithoutId(Tail(reg), pod_id)

\* Ids a delete may be asked for.
DeleteIds == {PodIdStr(n) : n \in 1..MaxPodId}

DeleteStart(pod_id) ==
    /\ pc = "idle"
    /\ Alive
    /\ cur' = [NoCall EXCEPT !.op = "delete", !.target = pod_id,
                             !.vp = FindPod(registry, pod_id)]
    /\ IF FindPod(registry, pod_id) = <<>>
       THEN pc' = "idle" /\ ret' = "False"
       ELSE pc' = "kill_replayer" /\ ret' = "running"
    /\ cmds' = <<>>
    /\ todo' = <<>>
    /\ steps' = {}
    /\ before' = [registry |-> registry, file |-> registry_file]
    /\ UNCHANGED <<registry, registry_file, remote, faults, budget, other_vars, provenance>>

Vp == cur.vp[1]

\* A delete that would drop the record and save before its remote steps.
RemoveRecordFirst(out) ==
    /\ pc = "kill_replayer"
    /\ out = "ok"
    /\ registry' = WithoutId(registry, cur.target)
    /\ registry_file' = SavedFile(registry')
    /\ pc' = "delete_source"
    /\ UNCHANGED <<remote, cur, todo, ret, cmds, faults, budget, other_vars, before, steps, provenance>>

\* 1. kill the replayer, when the record has a pid.
KillReplayer(out) ==
    /\ pc = "kill_replayer"
    /\ IF Vp.replayer_pid # <<>>
       THEN /\ DockerExec("kill", Vp.dest_node, Vp.replayer_pid, out)
            /\ IF out = "raise" THEN Raised ELSE GoOn("delete_source", 0)
       ELSE /\ out = "ok"
            /\ GoOn("delete_source", 0)
            /\ UNCHANGED <<remote, cmds, faults, budget, other_vars>>

\* 2. delete the source pod.
DeleteSourcePod(out) ==
    /\ pc = "delete_source"
    /\ DockerExec("delete_pod", Vp.source_node, Vp.source_pod_name, out)
    /\ IF out = "raise" THEN Raised ELSE GoOn("delete_dest", 0)

\* 3. delete the destination pod.
DeleteDestPod(out) ==
    /\ pc = "delete_dest"
    /\ DockerExec("delete_pod", Vp.dest_node, Vp.dest_pod_name, out)
    /\ IF out = "raise" THEN Raised ELSE GoOn("remove_file", 0)

\* 4. remove the time series file.
RemoveFile(out) ==
    /\ pc = "remove_file"
    /\ DockerExec("rm", Vp.dest_node, Vp.time_series_file, out)
    /\ IF out = "raise" THEN Raised ELSE GoOn("remove_record", 0)

\* 5. drop the record, save the registry, return True.
RemoveRecord ==
    /\ pc = "remove_record"
    /\ registry' = WithoutId(registry, cur.target)
    /\ registry_file' = SavedFile(registry')
    /\ pc' = "idle"
    /\ ret' = "True"
    /\ UNCHANGED <<remote, cur, todo, cmds, faults, budget, other_vars, before, steps, provenance>>

\* ------------------------------------------------------------ __init__

\* A new process constructs its manager: load_registry reads the file.
\* (Every CLI command is a process of its own; a restart before any
\* command has run changes nothing and is left out.)
Restart ==
    /\ pc = "idle"
    /\ ret # "none"
    /\ registry' = LoadRegistry(registry_file)
    /\ registry_file' = FileAfterLoad(registry_file)
    /\ cur' = [NoCall EXCEPT !.op = "restart"]
    /\ ret' = "none"
    /\ cmds' = <<>>
    /\ todo' = <<>>
    /\ steps' = {}
    /\ before' = [registry |-> registry, file |-> registry_file]
    /\ UNCHANGED <<remote, pc, faults, budget, other_vars, provenance>>

Next ==
    \/ \E args \in CreateArgs : CreateStart(args)
    \/ \E ok \in BOOLEAN : LoadWorkload(ok)
    \/ \E side \in {"src", "dst"}, out \in Outcomes : NsGet(side, out)
    \/ \E side \in {"src", "dst"}, out \in Outcomes : NsApply(side, out)
    \/ \E out \in Outcomes : CreateSourcePod(out)
    \/ \E out \in Outcomes : CreateDestPod(out)
    \/ \E out \in Outcomes : Mkdir(out)
    \/ \E out \in Outcomes : WriteFile(out)
    \/ \E out \in Outcomes : StartReplayer(out)
    \/ \E out \in Outcomes : Cleanup(out)
    \/ UpdateRegistry
    \/ \E pod_id \in DeleteIds : DeleteStart(pod_id)
    \/ \E out \in Outcomes : KillReplayer(out)
    \/ \E out \in Outcomes : DeleteSourcePod(out)
    \/ \E out \in Outcomes : DeleteDestPod(out)
    \/ \E out \in Outcomes : RemoveFile(out)
    \/ RemoveRecord
    \/ Restart

Init == InitWith(MaxFaults)

Spec == Init /\ [][Next]_vars

\* The same program, with one more failing docker exec call allowed.
InitTwoFaults == InitWith(MaxFaults + 1)

SpecTwoFaults == InitTwoFaults /\ [][Next]_vars

\* ------------------------------------------- a process stopped while saving

\* save_registry is open(registry_file, 'w'), which empties the file, and
\* then json.dump, which writes the document piece by piece.  The file of a
\* process stopped in between holds the first k records of the document and
\* no closing bracket (k = 0: nothing but what open left).  A stop counts as
\* one of the faults a run may see.
StoppedFile(reg, k) == [state |-> "truncated", doc |-> SubSeq(JsonDump(reg), 1, k)]

\* The process is stopped inside the save_registry of create_virtual_pod.
UpdateRegistryStopped(k) ==
    /\ pc = "update_registry"
    /\ faults < budget
    /\ k \in 0..Len(registry)
    /\ registry' = Append(registry, VirtualPodEntry(cur))
    /\ registry_file' = StoppedFile(registry', k)
    /\ pc' = "idle"
    /\ ret' = "stopped"
    /\ faults' = faults + 1
    /\ UNCHANGED <<remote, cur, todo, cmds, budget, other_vars, before, steps, provenance>>

\* The process is stopped inside the save_registry of delete_virtual_pod.
RemoveRecordStopped(k) ==
    /\ pc = "remove_record"
    /\ faults < budget
    /\ k \in 0..(Len(registry) - 1)
    /\ registry' = WithoutId(registry, cur.target)
    /\ registry_file' = StoppedFile(registry', k)
    /\ pc' = "idle"
    /\ ret' = "stopped"
    /\ faults' = faults + 1
    /\ UNCHANGED <<remote, cur, todo, cmds, budget, other_vars, before, steps, provenance>>

NextStop ==
    \/ Next
    \/ \E k \in 0..MaxPodId : UpdateRegistryStopped(k)
    \/ \E k \in 0..MaxPodId : RemoveRecordStopped(k)

\* The manager, with processes that may be stopped while they save.
SpecStop == Init /\ [][NextStop]_vars

\* ------------------------------------------- the replayers of the pairs

\* Pairs on two nodes and on one node.
PairArgs ==
    {[source_node |-> src, dest_node |-> "serf2",
      workload_file |-> "workload_templates/workload-light.json", interval |-> 10] :
        src \in {"serf1", "serf2"}}

\* f"{metrics['cpu']}m", f"{metrics['memory']}Mi", f"{metrics['power']}",
\* f"{metrics['psi']}" and str(time_index).
PatchAnnotations(time_series, tick) ==
    LET metrics == time_series[tick + 1]
    IN  [cpu |-> Str(metrics.cpu) \o <<"m">>,
         memory |-> Str(metrics.memory) \o <<"M", "i">>,
         power |-> Str(metrics.power),
         psi |-> Str(metrics.psi),
         time_index |-> Str(tick)]

\* update_pod_annotations of a running replayer, for its next tick: the pod
\* of its config is patched on the replayer's own node, when the index is
\* within the series and the pod exists (else: out of range, or the
\* ApiException is caught).  With --loop the ticks start again after the
\* last one.
UpdatePodAnnotations(proc) ==
    /\ proc \in DOMAIN virtual_replayers
    /\ LET r == virtual_replayers[proc]
           pod == <<proc[1], r.pod_name>>
       IN  /\ annotations' =
                  IF r.time_index < Len(r.time_series) /\ pod \in DOMAIN annotations
                  THEN [annotations EXCEPT ![pod] = PatchAnnotations(r.time_series, r.time_index)]
                  ELSE annotations
           /\ virtual_replayers' =
                  [virtual_replayers EXCEPT
                      ![proc].time_index = (r.time_index + 1) % Len(r.time_series)]
    /\ UNCHANGED <<registry, registry_file, namespaces, pods, files, procs, pc, cur,
                   todo, cmds, ret, faults, budget, before, steps, provenance,
                   other_vars>>

Nodes == {"serf1", "serf2"}

Pids == {Str(101 + k) : k \in 0..((MaxFaults + 1) * MaxPodId)}

NextPair ==
    \/ \E args \in PairArgs : CreateStart(args)
    \/ \E ok \in BOOLEAN : LoadWorkload(ok)
    \/ \E side \in {"src", "dst"}, out \in Outcomes : NsGet(side, out)
    \/ \E side \in {"src", "dst"}, out \in Outcomes : NsApply(side, out)
    \/ \E out \in Outcomes : CreateSourcePod(out)
    \/ \E out \in Outcomes : CreateDestPod(out)
    \/ \E out \in Outcomes : Mkdir(out)
    \/ \E out \in Outcomes : WriteFile(out)
    \/ \E out \in Outcomes : StartReplayer(out)
    \/ UpdateRegistry
    \/ \E pod_id \in DeleteIds : DeleteStart(pod_id)
    \/ \E out \in Outcomes : KillReplayer(out)
    \/ \E out \in Outcomes : DeleteSourcePod(out)
    \/ \E out \in Outcomes : DeleteDestPod(out)
    \/ \E out \in Outcomes : RemoveFile(out)
    \/ RemoveRecord
    \/ \E node \in Nodes, pid \in Pids : UpdatePodAnnotations(<<node, pid>>)

\* No docker exec call fails or raises by itself.
InitPair == InitWith(0)

\* The manager and the replayers it has started.
SpecPair == InitPair /\ [][NextPair]_vars

\* ================================================================ replayers
\* replay_metrics.py ("rate_limited"), replay_metrics_opt.py ("optimized")
\* and replay_virtual_pod.py ("virtual_pod").

\* Most replay_timepoint calls a run of the model makes.
MaxTicks == 3

\* config['pods'] with time series of the given lengths.
PodList(lens) == [i \in 1..Len(lens) |-> [pod_name |-> i, time_series |-> lens[i]]]

\* Constructor arguments and loaded config of the replayers that are run.
ReplayArgs ==
    {[variant |-> "rate_limited", loop |-> FALSE, max_concurrent |-> 2,
      batch_size |-> 1, time_points |-> 2, pods |-> PodList(<<2, 2, 2>>)],
     [variant |-> "rate_limited", loop |-> TRUE, max_concurrent |-> 1,
      batch_size |-> 2, time_points |-> 2, pods |-> PodList(<<2, 2, 1>>)],
     [variant |-> "rate_limited", loop |-> FALSE, max_concurrent |-> 2,
      batch_size |-> 2, time_points |-> 1, pods |-> PodList(<<1, 1, 1, 1>>)],
     [variant |-> "optimized", loop |-> FALSE, max_concurrent |-> 2,
      batch_size |-> 1, time_points |-> 2, pods |-> PodList(<<2, 1>>)],
     [variant |-> "optimized", loop |-> FALSE, max_concurrent |-> 2,
      batch_size |-> 1, time_points |-> 1, pods |-> PodList(<<1, 1, 1>>)],
     [variant |-> "optimized", loop |-> TRUE, max_concurrent |-> 1,
      batch_size |-> 1, time_points |-> 1, pods |-> PodList(<<1, 1>>)],
     [variant |-> "virtual_pod", loop |-> FALSE, max_concurrent |-> 1,
      batch_size |-> 1, time_points |-> 2, pods |-> PodList(<<2>>)],
     [variant |-> "virtual_pod", loop |-> TRUE, max_concurrent |-> 1,
      batch_size |-> 1, time_points |-> 2, pods |-> PodList(<<2>>)]}

\* What patch_namespaced_pod does: returns, raises ApiException, or raises
\* another exception.
PatchOutcomes == {"ok", "ApiException", "Exception"}

\* self.max_concurrent (self.workers in replay_metrics_opt.py): the number
\* given to Semaphore(...) and to ThreadPoolExecutor(max_workers=...).
max_concurrent_plus_one == replayer.max_concurrent + 1

max_concurrent == replayer.max_concurrent

\* total_time_points of run().
total_time_points ==
    IF replayer.variant = "virtual_pod"
    THEN replayer.pods[1].time_series
    ELSE replayer.time_points

\* pod_info['time_series'] of a pod whose series has n samples.
TimeSeries(n) == SubSeq(WorkloadSeries, 1, n)

\* The patch update_pod_batch, update_single_pod and update_pod_annotations
\* build for a pod in a tick: the annotations of the sample at the index.
PatchOf(pod, tick) ==
    [pod |-> pod,
     body |-> PatchAnnotations(TimeSeries(replayer.pods[pod].time_series), tick)]

\* pods[i : i + n] of Python, on positions counted from 0.
Slice(q, i, n) == SubSeq(q, i + 1, IF i + n < Len(q) THEN i + n ELSE Len(q))

\* The loop "for i in range(0, len(pods), batch_size): append pods[i:i+batch_size]"
\* from position i on.
RECURSIVE BatchesFrom(_, _, _)
BatchesFrom(q, i, n) ==
    IF i >= Len(q) THEN <<>> ELSE <<Slice(q, i, n)>> \o BatchesFrom(q, i + n, n)

\* One pod per batch, whatever batch_size.
PodBatchesOfOne(q, n) == BatchesFrom(q, 0, 1)

PodBatches(q, n) == BatchesFrom(q, 0, n)

\* Positions of the pods in config['pods'].
PodPositions == [i \in 1..Len(replayer.pods) |-> i]

\* The work items submitted for a tick: a batch each in replay_metrics.py,
\* a pod each in replay_metrics_opt.py.
WorkItems ==
    IF replayer.variant = "rate_limited"
    THEN PodBatches(PodPositions, replayer.batch_size)
    ELSE [i \in 1..Len(replayer.pods) |-> <<i>>]

Queued == [state |-> "queued", k |-> 0, success_count |-> 0, tmp |-> 0, key |-> "none"]

\* Work items a worker thread is running.
Busy == {f \in 1..Len(futures) : futures[f].state \notin {"queued", "done"}}

\* Batches between semaphore.acquire() and semaphore.release().
Executing ==
    {f \in 1..Len(futures) :
        futures[f].state \in {"pods", "lock", "read", "write", "release"}}

\* Every submitted work item has finished.
AllDone == \A f \in 1..Len(futures) : futures[f].state = "done"

InitReplay ==
    /\ ManagerInit(0)
    /\ CollectorIdle
    /\ ToolsIdle
    /\ replayer \in ReplayArgs
    /\ main_pc = "tick"
    /\ iteration = 1
    /\ time_index = 0
    /\ stats = [success |-> 0, failed |-> 0]
    /\ stats_lock = 0
    /\ semaphore = max_concurrent
    /\ pod_batches = <<>>
    /\ futures = <<>>
    /\ interrupted = FALSE
    /\ ticks = <<>>
    /\ patched = {}
    /\ attempted = {}
    /\ patches = {}
    /\ report = <<>>

\* ----------------------------------------------------- run(), main thread

\* run() without "if not self.loop: break".
AfterTimepointNoBreak ==
    IF time_index < total_time_points - 1 THEN "sleep" ELSE "restart_sleep"

\* run() with an unconditional break.
AfterTimepointBreak ==
    IF time_index < total_time_points - 1 THEN "sleep" ELSE "done"

\* Where run() goes when replay_timepoint has returned: sleep before the
\* next time point, stop after the last one, or sleep and start over.
AfterTimepoint ==
    IF time_index < total_time_points - 1 THEN "sleep"
    ELSE IF ~replayer.loop THEN "done"
    ELSE "restart_sleep"

\* replay_timepoint up to the end of the submissions: reset the counters,
\* split the pods, submit every work item to the executor.
BeginTick ==
    /\ main_pc = "tick"
    /\ replayer.variant \in {"rate_limited", "optimized"}
    /\ Len(ticks) < MaxTicks
    /\ stats' = [success |-> 0, failed |-> 0]
    /\ pod_batches' = WorkItems
    /\ futures' = [f \in 1..Len(WorkItems) |-> Queued]
    /\ ticks' = Append(ticks, time_index)
    /\ patched' = {}
    /\ attempted' = {}
    /\ patches' = {}
    /\ report' = <<>>
    /\ main_pc' = "wait"
    /\ UNCHANGED <<manager_vars, tools_vars, collect_vars, replayer, iteration, time_index, stats_lock,
                   semaphore, interrupted>>

\* The with block ends when every work item has finished; the counters are
\* then read under the lock and replay_timepoint returns.
JoinAll ==
    /\ main_pc = "wait"
    /\ AllDone
    /\ report' = <<stats>>
    /\ main_pc' = AfterTimepoint
    /\ UNCHANGED <<manager_vars, tools_vars, collect_vars, replayer, iteration, time_index, stats,
                   stats_lock, semaphore, pod_batches, futures, interrupted,
                   ticks, patched, attempted, patches>>

\* replay_virtual_pod.py: replay_timepoint patches the one pod itself.
\* ApiException is caught; any other exception leaves run().
VirtualPodTick(out) ==
    /\ main_pc = "tick"
    /\ replayer.variant = "virtual_pod"
    /\ Len(ticks) < MaxTicks
    /\ ticks' = Append(ticks, time_index)
    /\ IF time_index >= replayer.pods[1].time_series
       THEN /\ out = "ok"
            /\ attempted' = {}
            /\ patches' = {}
            /\ patched' = {}
            /\ main_pc' = AfterTimepoint
       ELSE /\ attempted' = {1}
            /\ patches' = {PatchOf(1, time_index)}
            /\ patched' = IF out = "ok" THEN {1} ELSE {}
            /\ main_pc' = IF out = "Exception" THEN "crashed" ELSE AfterTimepoint
    /\ UNCHANGED <<manager_vars, tools_vars, collect_vars, replayer, iteration, time_index, stats,
                   stats_lock, semaphore, pod_batches, futures, interrupted,
                   report>>

\* time.sleep(interval) between two time points is over.
NextTimepoint ==
    /\ main_pc = "sleep"
    /\ time_index' = time_index + 1
    /\ main_pc' = "tick"
    /\ UNCHANGED <<manager_vars, tools_vars, collect_vars, replayer, iteration, stats, stats_lock,
                   semaphore, pod_batches, futures, interrupted, ticks,
                   patched, attempted, patches, report>>

\* Loop mode: time.sleep(interval) after the last time point is over.
NextIteration ==
    /\ main_pc = "restart_sleep"
    /\ iteration' = iteration + 1
    /\ time_index' = 0
    /\ main_pc' = "tick"
    /\ UNCHANGED <<manager_vars, tools_vars, collect_vars, replayer, stats, stats_lock, semaphore,
                   pod_batches, futures, interrupted, ticks, patched,
                   attempted, patches, report>>

\* Ctrl-C: KeyboardInterrupt is raised in the main thread.  Inside the with
\* block the exception first runs the executor's __exit__, which is
\* shutdown(wait=True); elsewhere it reaches run()'s except clause at once.
Interrupt ==
    /\ main_pc \in {"tick", "wait", "sleep", "restart_sleep"}
    /\ ~interrupted
    /\ interrupted' = TRUE
    /\ main_pc' = IF main_pc = "wait" THEN "shutdown" ELSE "done"
    /\ UNCHANGED <<manager_vars, tools_vars, collect_vars, replayer, iteration, time_index, stats,
                   stats_lock, semaphore, pod_batches, futures, ticks,
                   patched, attempted, patches, report>>

\* shutdown(wait=True) has joined the worker threads; run() handles the
\* KeyboardInterrupt and returns.
ShutdownDone ==
    /\ main_pc = "shutdown"
    /\ AllDone
    /\ main_pc' = "done"
    /\ UNCHANGED <<manager_vars, tools_vars, collect_vars, replayer, iteration, time_index, stats,
                   stats_lock, semaphore, pod_batches, futures, interrupted,
                   ticks, patched, attempted, patches, report>>

\* --------------------------------------------------------- worker threads

\* The oldest work item still in the executor's queue.
NextQueued(f) ==
    /\ futures[f].state = "queued"
    /\ \A g \in 1..(f - 1) : futures[g].state # "queued"

\* with self.stats_lock: nobody holds the lock.
LockFreeAlways == TRUE

LockFree == stats_lock = 0

\* time_index >= len(time_series): the pod has no sample for the tick.
OutOfRange(pod) == time_index >= replayer.pods[pod].time_series

\* A worker thread of the executor takes the next work item and calls
\* update_pod_batch (update_single_pod in replay_metrics_opt.py).  The
\* executor runs at most max_workers threads, and keeps working through its
\* queue while the main thread waits, shutdown(wait=True) included.
WorkerTake(f) ==
    /\ main_pc \in {"wait", "shutdown"}
    /\ f \in 1..Len(futures)
    /\ NextQueued(f)
    /\ Cardinality(Busy) < max_concurrent
    /\ futures' = [futures EXCEPT ![f].state =
                      IF replayer.variant = "rate_limited" THEN "acquire" ELSE "check"]
    /\ UNCHANGED <<manager_vars, tools_vars, collect_vars, replayer, main_pc, iteration, time_index,
                   stats, stats_lock, semaphore, pod_batches, interrupted,
                   ticks, patched, attempted, patches, report>>

\* update_pod_batch: self.semaphore.acquire()
Acquire(f) ==
    /\ f \in 1..Len(futures)
    /\ futures[f].state = "acquire"
    /\ semaphore > 0
    /\ semaphore' = semaphore - 1
    /\ futures' = [futures EXCEPT ![f].state = "pods", ![f].k = 1,
                                   ![f].success_count = 0]
    /\ UNCHANGED <<manager_vars, tools_vars, collect_vars, replayer, main_pc, iteration, time_index,
                   stats, stats_lock, pod_batches, interrupted, ticks,
                   patched, attempted, patches, report>>

\* update_pod_batch: one round of "for pod_info in pod_batch".  A pod out
\* of range is passed over; otherwise the pod is patched, and an exception
\* of the patch is swallowed.
PatchPod(f, out) ==
    /\ f \in 1..Len(futures)
    /\ futures[f].state = "pods"
    /\ LET pod == pod_batches[f][futures[f].k]
           last == futures[f].k = Len(pod_batches[f])
           ok == ~OutOfRange(pod) /\ out = "ok"
       IN  /\ OutOfRange(pod) => out = "ok"
           /\ attempted' = IF OutOfRange(pod) THEN attempted ELSE attempted \cup {pod}
           /\ patches' = IF OutOfRange(pod) THEN patches
                         ELSE patches \cup {PatchOf(pod, time_index)}
           /\ patched' = IF ok THEN patched \cup {pod} ELSE patched
           /\ futures' = [futures EXCEPT
                  ![f].success_count = IF ok THEN @ + 1 ELSE @,
                  ![f].k = @ + 1,
                  ![f].state = IF last THEN "lock" ELSE "pods"]
    /\ UNCHANGED <<manager_vars, tools_vars, collect_vars, replayer, main_pc, iteration, time_index,
                   stats, stats_lock, semaphore, pod_batches, interrupted,
                   ticks, report>>

\* update_single_pod of replay_metrics_opt.py up to the counters: a pod out
\* of range returns False at once; otherwise the pod is patched, and
\* update_pod_annotations_api turns every exception into False.
UpdateSinglePod(f, out) ==
    /\ f \in 1..Len(futures)
    /\ futures[f].state = "check"
    /\ LET pod == pod_batches[f][1]
       IN  IF OutOfRange(pod)
           THEN /\ out = "ok"
                /\ futures' = [futures EXCEPT ![f].state = "done"]
                /\ UNCHANGED <<attempted, patches, patched>>
           ELSE /\ attempted' = attempted \cup {pod}
                /\ patches' = patches \cup {PatchOf(pod, time_index)}
                /\ patched' = IF out = "ok" THEN patched \cup {pod} ELSE patched
                /\ futures' = [futures EXCEPT
                       ![f].success_count = IF out = "ok" THEN 1 ELSE 0,
                       ![f].state = "lock"]
    /\ UNCHANGED <<manager_vars, tools_vars, collect_vars, replayer, main_pc, iteration, time_index,
                   stats, stats_lock, semaphore, pod_batches, interrupted,
                   ticks, report>>

\* with self.stats_lock: the thread enters when the lock is free.
\* replay_metrics.py adds to both counters, 'success' first;
\* replay_metrics_opt.py adds one to the counter of the pod's result.
LockStats(f) ==
    /\ f \in 1..Len(futures)
    /\ futures[f].state = "lock"
    /\ LockFree
    /\ stats_lock' = f
    /\ futures' = [futures EXCEPT ![f].state = "read", ![f].key =
                      IF replayer.variant = "rate_limited" \/ futures[f].success_count = 1
                      THEN "success" ELSE "failed"]
    /\ UNCHANGED <<manager_vars, tools_vars, collect_vars, replayer, main_pc, iteration, time_index,
                   stats, semaphore, pod_batches, interrupted, ticks,
                   patched, attempted, patches, report>>

\* self.stats[key] += n, first half: the counter is read.
ReadCounter(f) ==
    /\ f \in 1..Len(futures)
    /\ futures[f].state = "read"
    /\ futures' = [futures EXCEPT ![f].state = "write",
                                   ![f].tmp = stats[futures[f].key]]
    /\ UNCHANGED <<manager_vars, tools_vars, collect_vars, replayer, main_pc, iteration, time_index,
                   stats, stats_lock, semaphore, pod_batches, interrupted,
                   ticks, patched, attempted, patches, report>>

\* What the work item adds to the counter it is at.
Increment(f) ==
    IF replayer.variant = "optimized" THEN 1
    ELSE IF futures[f].key = "success" THEN futures[f].success_count
    ELSE Len(pod_batches[f]) - futures[f].success_count

\* self.stats[key] += n, second half: the sum is stored.  After its last
\* counter the thread leaves the with block, which releases the lock.
WriteCounter(f) ==
    /\ f \in 1..Len(futures)
    /\ futures[f].state = "write"
    /\ stats' = [stats EXCEPT ![futures[f].key] = futures[f].tmp + Increment(f)]
    /\ IF replayer.variant = "rate_limited" /\ futures[f].key = "success"
       THEN /\ futures' = [futures EXCEPT ![f].state = "read", ![f].key = "failed"]
            /\ UNCHANGED stats_lock
       ELSE /\ futures' = [futures EXCEPT ![f].state =
                   IF replayer.variant = "rate_limited" THEN "release" ELSE "done"]
            /\ stats_lock' = 0
    /\ UNCHANGED <<manager_vars, tools_vars, collect_vars, replayer, main_pc, iteration, time_index,
                   semaphore, pod_batches, interrupted, ticks, patched,
                   attempted, patches, report>>

\* update_pod_batch: finally: self.semaphore.release(); the call returns.
Release(f) ==
    /\ f \in 1..Len(futures)
    /\ futures[f].state = "release"
    /\ semaphore' = semaphore + 1
    /\ futures' = [futures EXCEPT ![f].state = "done"]
    /\ UNCHANGED <<manager_vars, tools_vars, collect_vars, replayer, main_pc, iteration, time_index,
                   stats, stats_lock, pod_batches, interrupted, ticks,
                   patched, attempted, patches, report>>

\* The steps the replayer's threads take by themselves.
ReplayStep ==
    \/ BeginTick
    \/ JoinAll
    \/ \E out \in PatchOutcomes : VirtualPodTick(out)
    \/ NextTimepoint
    \/ NextIteration
    \/ ShutdownDone
    \/ \E f \in DOMAIN futures : WorkerTake(f)
    \/ \E f \in DOMAIN futures : Acquire(f)
    \/ \E f \in DOMAIN futures, out \in PatchOutcomes : PatchPod(f, out)
    \/ \E f \in DOMAIN futures, out \in PatchOutcomes : UpdateSinglePod(f, out)
    \/ \E f \in DOMAIN futures : LockStats(f)
    \/ \E f \in DOMAIN futures : ReadCounter(f)
    \/ \E f \in DOMAIN futures : WriteCounter(f)
    \/ \E f \in DOMAIN futures : Release(f)

NextReplay ==
    \/ ReplayStep
    \/ Interrupt

\* A replayer from the start of run().
SpecReplay == InitReplay /\ [][NextReplay]_vars

\* The same, with threads that are scheduled, sleeps that end and calls to
\* the API server that return; Ctrl-C may or may not come.
SpecReplayFair == SpecReplay /\ WF_vars(ReplayStep)

\* Longest pod list and largest batch size that are split.
MaxPods == 10

MaxBatchSize == 5

\* replay_metrics.py at the start of a tick, for every pod list and batch
\* size up to the bounds.
InitBatches ==
    /\ ManagerInit(0)
    /\ CollectorIdle
    /\ ToolsIdle
    /\ \E n \in 0..MaxPods, b \in 1..MaxBatchSize :
           replayer = [variant |-> "rate_limited", loop |-> FALSE,
                       max_concurrent |-> 1, batch_size |-> b, time_points |-> 1,
                       pods |-> PodList([i \in 1..n |-> 1])]
    /\ main_pc = "tick"
    /\ iteration = 1
    /\ time_index = 0
    /\ stats = [success |-> 0, failed |-> 0]
    /\ stats_lock = 0
    /\ semaphore = max_concurrent
    /\ pod_batches = <<>>
    /\ futures = <<>>
    /\ interrupted = FALSE
    /\ ticks = <<>>
    /\ patched = {}
    /\ attempted = {}
    /\ patches = {}
    /\ report = <<>>

NextBatches == BeginTick

\* The split of replay_timepoint alone.
SpecBatches == InitBatches /\ [][NextBatches]_vars

\* ------------------------------------------------------------ properties

\* The handler op has ended in state r.
Ended(op, r) == pc = "idle" /\ cur.op = op /\ ret = r

\* The current invocation issued cmd on node for arg, with return code rc.
Issued(cmd, node, arg, rc) ==
    \E i \in 1..Len(cmds) :
        /\ cmds[i].cmd = cmd
        /\ cmds[i].node = node
        /\ cmds[i].arg = arg
        /\ cmds[i].rc = rc

\* What the current create_virtual_pod invocation has created.
SourceMade == Issued("apply_pod", cur.source_node, SourcePodName(cur.pod_id), "0")

DestMade == Issued("apply_pod", cur.dest_node, DestPodName(cur.pod_id), "0")

FileMade == Issued("write_file", cur.dest_node, JsonPath(cur.pod_id), "0")

ReplayerMade == \E i \in 1..Len(cmds) : cmds[i].cmd = "start_replayer" /\ cmds[i].rc = "0"

\* Steps 4 and 6 returned a non-zero code.
DestFailed == Issued("apply_pod", cur.dest_node, DestPodName(cur.pod_id), "1")

ReplayerFailed == \E i \in 1..Len(cmds) : cmds[i].cmd = "start_replayer" /\ cmds[i].rc = "1"

SourceLeft == <<cur.source_node, SourcePodName(cur.pod_id)>> \in pods

DestLeft == <<cur.dest_node, DestPodName(cur.pod_id)>> \in pods

FileLeft == <<cur.dest_node, JsonPath(cur.pod_id)>> \in files

\* No record with the id of the current create invocation, in memory or on file.
NoRecordOfCall ==
    /\ FindPod(registry, PodIdStr(cur.pod_id)) = <<>>
    /\ FindPod(LoadRegistry(registry_file), PodIdStr(cur.pod_id)) = <<>>

\* C1: when create_virtual_pod returns failure, no source pod, destination
\* pod, artifact or replayer process that the invocation created remains.
C1_NoResidueOnFailure ==
    Ended("create", "False") =>
        /\ SourceMade => ~SourceLeft
        /\ DestMade => ~DestLeft
        /\ FileMade => ~FileLeft
        /\ ReplayerMade => \A i \in 1..Len(cmds) :
               cmds[i].cmd = "start_replayer" => <<cmds[i].node, cmds[i].arg>> \notin procs

\* C2: when step 4 (the destination pod) fails, on return the source pod
\* of step 3 is deleted and the Registry has no record for the id.
C2_DestFailureRollsBackSource ==
    (Ended("create", "False") /\ DestFailed) => (~SourceLeft /\ NoRecordOfCall)

\* C3: when step 6 (the replayer start) fails, on return both pods and
\* the artifact are removed and the Registry has no record for the id.
C3_ReplayerFailureRollsBackAll ==
    (Ended("create", "False") /\ ReplayerFailed) =>
        (~SourceLeft /\ ~DestLeft /\ ~FileLeft /\ NoRecordOfCall)

RECURSIVE SelectCmds(_, _)
SelectCmds(log, kinds) ==
    IF log = <<>> THEN <<>>
    ELSE (IF Head(log).cmd \in kinds
          THEN <<[cmd |-> Head(log).cmd, node |-> Head(log).node, arg |-> Head(log).arg]>>
          ELSE <<>>) \o SelectCmds(Tail(log), kinds)

Reverse(q) == [i \in 1..Len(q) |-> q[Len(q) + 1 - i]]

\* The cleanup commands the current invocation issued, in the order issued.
CleanupIssued == SelectCmds(cmds, {"delete_pod", "rm"})

\* The undo of each of steps 3-5 that completed, in the order they completed.
UndoOfCompleted ==
    (IF SourceMade THEN <<DeleteSourceCmd(cur)>> ELSE <<>>)
    \o (IF DestMade THEN <<DeleteDestCmd(cur)>> ELSE <<>>)
    \o (IF FileMade THEN <<RemoveFileCmd(cur)>> ELSE <<>>)

C5_NoPartialRecord ==
    /\ \A i \in 1..Len(registry) :
           \E p \in provenance : p.id = registry[i].id /\ p.steps = 1..6
    /\ (pc = "idle" /\ cur.op = "create" /\ ret \in {"False", "raised", "exit"}) =>
           (registry = before.registry /\ registry_file = before.file)

\* A create that failed at step 6 with a record already in the Registry.
C5_Witness ==
    Ended("create", "False") /\ steps = 1..5 /\ Len(registry) >= 1

\* C6: delete_virtual_pod of an id that is in the Registry ends with the
\* record removed and returns True, whichever of its steps fail.
C6_DeleteAlwaysRemovesRecord ==
    (pc = "idle" /\ cur.op = "delete" /\ cur.vp # <<>>) =>
        (ret = "True" /\ FindPod(registry, cur.target) = <<>>)

\* A record is appended in this step.
Appends == Len(registry') = Len(registry) + 1

\* C7, as claimed: an id that was once assigned to a record is never
\* assigned to a later record.
C7_IdNeverReused ==
    [][Appends => registry'[Len(registry')].id \notin assigned]_vars

\* C7, amended: the id given to a new record is greater than the id of
\* every record in the Registry at that moment; an id assigned before is
\* assigned again only when no record with that or a greater id is left.
C7_NewIdAboveAllPresent ==
    [][Appends =>
        \A i \in 1..Len(registry) :
            IdNumber(registry[i]) < IdNumber(registry'[Len(registry')])]_vars

\* A record is about to be appended next to others, with an id that a
\* record since deleted had.
C7_Witness ==
    /\ pc = "update_registry"
    /\ registry # <<>>
    /\ PodIdStr(cur.pod_id) \in assigned

\* C8: get_next_pod_id is 1 on an empty Registry, and otherwise one more
\* than the greatest numeric suffix of the ids in it: some record has the
\* id before it and no record has that id or a later one; [vp-001, vp-003]
\* gives vp-004.
C8_NextIdIsMaxPlusOne ==
    LET n == GetNextPodId(registry)
    IN  /\ registry = <<>> => n = 1
        /\ registry # <<>> =>
               /\ \E i \in 1..Len(registry) : registry[i].id = PodIdStr(n - 1)
               /\ \A i \in 1..Len(registry), m \in n..(MaxPodId + 1) :
                      registry[i].id # PodIdStr(m)
        /\ ( /\ Len(registry) = 2
             /\ registry[1].id = <<"v", "p", "-", "0", "0", "1">>
             /\ registry[2].id = <<"v", "p", "-", "0", "0", "3">> )
               => PodIdStr(n) = <<"v", "p", "-", "0", "0", "4">>

\* The Registry holds [vp-001, vp-003].
C8_Witness ==
    /\ Len(registry) = 2
    /\ registry[1].id = <<"v", "p", "-", "0", "0", "1">>
    /\ registry[2].id = <<"v", "p", "-", "0", "0", "3">>

\* C9: the records of the Registry have pairwise distinct ids.
C9_DistinctIds ==
    \A i, j \in 1..Len(registry) : i # j => registry[i].id # registry[j].id

\* Two records, appended after an earlier record was deleted.
C9_Witness ==
    /\ Len(registry) = 2
    /\ Cardinality(assigned) = 3
    /\ Ended("create", "True")

\* C10: a manager constructed after the Registry was saved loads records
\* equal in every field to the ones written.
C10_ReloadEqualsWritten ==
    [][(cur.op # "restart" /\ cur'.op = "restart") =>
        /\ Len(registry') = Len(registry)
        /\ \A i \in 1..Len(registry) :
               /\ DOMAIN registry'[i] = DOMAIN registry[i]
               /\ \A k \in DOMAIN registry[i] : registry'[i][k] = registry[i][k]]_vars

\* A new manager has loaded two records.
C10_Witness ==
    /\ cur.op = "restart"
    /\ Len(registry) = 2
    /\ registry[2].interval = 10
    /\ registry[2].status = "running"

\* C11: whenever the process stops during save_registry, the registry file
\* holds a complete document: the one before the call or the one of the
\* registry being saved, never an empty or truncated one.
C11_FileCompleteOldOrNew ==
    /\ registry_file.state = "json"
    /\ registry_file \in {before.file, SavedFile(registry)}

\* ================================================================ collector
\* expose_metrics.py: main() calls update_metrics once, exits if it failed,
\* then starts the updater thread and serves /metrics.

\* Most update_metrics calls a run of the model makes.
MaxCycles == 4

\* What a step of update_metrics does: goes through, or raises an exception
\* that update_metrics catches at its end.
CycleOutcomes == {"ok", "raise"}

\* with self.metrics_lock: nobody holds the lock.
MetricsLockFreeAlways == TRUE

MetricsLockFree == metrics_lock = "none"

\* The updater goes on whatever the first call returned.
AfterFailedCycleGoOn == "sleep"

\* update_metrics returned False: main() exits on the first call, the
\* updater thread sleeps and tries again on the later ones.
AfterFailedCycle == IF cycle = 1 THEN "exit" ELSE "sleep"

\* main() has started the updater thread and the HTTP server.
Serving == Len(results) >= 1 /\ updater_pc # "exit"

InitCollect ==
    /\ ManagerInit(0)
    /\ ReplayerIdle
    /\ ToolsIdle
    /\ DataIdle
    /\ cache_initialized = FALSE
    /\ metrics_lock = "none"
    /\ pod_metrics = 0
    /\ node_metrics = 0
    /\ real_node_metrics = 0
    /\ updater_pc = "sleep"
    /\ handler_pc = "idle"
    /\ cycle = 0
    /\ fresh = 0
    /\ rendered = NothingRendered
    /\ cache_cycles = {}
    /\ results = <<>>

\* update_metrics is called: the cache is built first unless it is marked
\* as initialized.
CycleBegin ==
    /\ updater_pc = "sleep"
    /\ cycle < MaxCycles
    /\ cycle' = cycle + 1
    /\ updater_pc' = IF cache_initialized THEN "collect" ELSE "cache"
    /\ UNCHANGED <<manager_vars, tools_vars, replay_vars, data_vars, cache_initialized, metrics_lock,
                   pod_metrics, node_metrics, real_node_metrics, handler_pc,
                   fresh, rendered, cache_cycles, results>>

\* update_metrics returns False from its except clause.
CycleFails ==
    /\ updater_pc' = AfterFailedCycle
    /\ results' = Append(results, FALSE)

\* initialize_pod_node_cache: every namespace of the config and liqo is
\* listed.  An ApiException of a listing is caught and the pass completes;
\* any other exception leaves the pass before the cache is marked.
InitializePodNodeCache(out) ==
    /\ updater_pc = "cache"
    /\ cache_cycles' = cache_cycles \cup {cycle}
    /\ IF out = "ok"
       THEN /\ cache_initialized' = TRUE
            /\ updater_pc' = "collect"
            /\ UNCHANGED results
       ELSE /\ CycleFails
            /\ UNCHANGED cache_initialized
    /\ UNCHANGED <<manager_vars, tools_vars, replay_vars, data_vars, metrics_lock, pod_metrics,
                   node_metrics, real_node_metrics, handler_pc, cycle, fresh,
                   rendered>>

\* collect_pod_metrics_batch, aggregate_node_metrics, the time index and
\* get_real_node_metrics: the three maps of the cycle are computed.
Collect(out) ==
    /\ updater_pc = "collect"
    /\ IF out = "ok"
       THEN /\ fresh' = cycle
            /\ updater_pc' = "lock"
            /\ UNCHANGED results
       ELSE /\ CycleFails
            /\ UNCHANGED fresh
    /\ UNCHANGED <<manager_vars, tools_vars, replay_vars, data_vars, cache_initialized, metrics_lock,
                   pod_metrics, node_metrics, real_node_metrics, handler_pc,
                   cycle, rendered, cache_cycles>>

\* update_metrics: with self.metrics_lock
LockMetrics ==
    /\ updater_pc = "lock"
    /\ MetricsLockFree
    /\ metrics_lock' = "updater"
    /\ updater_pc' = "set_pod"
    /\ UNCHANGED <<manager_vars, tools_vars, replay_vars, data_vars, cache_initialized, pod_metrics,
                   node_metrics, real_node_metrics, handler_pc, cycle, fresh,
                   rendered, cache_cycles, results>>

\* self.pod_metrics = pod_metrics
SetPodMetrics ==
    /\ updater_pc = "set_pod"
    /\ pod_metrics' = fresh
    /\ updater_pc' = "set_node"
    /\ UNCHANGED <<manager_vars, tools_vars, replay_vars, data_vars, cache_initialized, metrics_lock,
                   node_metrics, real_node_metrics, handler_pc, cycle, fresh,
                   rendered, cache_cycles, results>>

\* self.node_metrics = node_metrics
SetNodeMetrics ==
    /\ updater_pc = "set_node"
    /\ node_metrics' = fresh
    /\ updater_pc' = "set_real"
    /\ UNCHANGED <<manager_vars, tools_vars, replay_vars, data_vars, cache_initialized, metrics_lock,
                   pod_metrics, real_node_metrics, handler_pc, cycle, fresh,
                   rendered, cache_cycles, results>>

\* self.real_node_metrics = real_node_metrics; the with block ends and
\* update_metrics returns True.
SetRealNodeMetrics ==
    /\ updater_pc = "set_real"
    /\ real_node_metrics' = fresh
    /\ metrics_lock' = "none"
    /\ results' = Append(results, TRUE)
    /\ updater_pc' = "sleep"
    /\ UNCHANGED <<manager_vars, tools_vars, replay_vars, data_vars, cache_initialized, pod_metrics,
                   node_metrics, handler_pc, cycle, fresh, rendered,
                   cache_cycles>>

\* GET /metrics: get_prometheus_metrics enters with self.metrics_lock.
RenderBegin ==
    /\ handler_pc = "idle"
    /\ Serving
    /\ MetricsLockFree
    /\ metrics_lock' = "handler"
    /\ rendered' = NothingRendered
    /\ handler_pc' = "pods"
    /\ UNCHANGED <<manager_vars, tools_vars, replay_vars, data_vars, cache_initialized, pod_metrics,
                   node_metrics, real_node_metrics, updater_pc, cycle, fresh,
                   cache_cycles, results>>

\* The six groups of pod lines are rendered from self.pod_metrics.
RenderPods ==
    /\ handler_pc = "pods"
    /\ rendered' = [rendered EXCEPT !.pod = pod_metrics]
    /\ handler_pc' = "nodes"
    /\ UNCHANGED <<manager_vars, tools_vars, replay_vars, data_vars, cache_initialized, metrics_lock,
                   pod_metrics, node_metrics, real_node_metrics, updater_pc,
                   cycle, fresh, cache_cycles, results>>

\* The five groups of node lines are rendered from self.node_metrics.
RenderNodes ==
    /\ handler_pc = "nodes"
    /\ rendered' = [rendered EXCEPT !.node = node_metrics]
    /\ handler_pc' = "real"
    /\ UNCHANGED <<manager_vars, tools_vars, replay_vars, data_vars, cache_initialized, metrics_lock,
                   pod_metrics, node_metrics, real_node_metrics, updater_pc,
                   cycle, fresh, cache_cycles, results>>

\* The four groups of real-node lines are rendered from
\* self.real_node_metrics; the with block ends and the text is returned.
RenderRealNodes ==
    /\ handler_pc = "real"
    /\ rendered' = [rendered EXCEPT !.real = real_node_metrics]
    /\ metrics_lock' = "none"
    /\ handler_pc' = "idle"
    /\ UNCHANGED <<manager_vars, tools_vars, replay_vars, data_vars, cache_initialized, pod_metrics,
                   node_metrics, real_node_metrics, updater_pc, cycle, fresh,
                   cache_cycles, results>>

NextCollect ==
    \/ CycleBegin
    \/ \E out \in CycleOutcomes : InitializePodNodeCache(out)
    \/ \E out \in CycleOutcomes : Collect(out)
    \/ LockMetrics
    \/ SetPodMetrics
    \/ SetNodeMetrics
    \/ SetRealNodeMetrics
    \/ RenderBegin
    \/ RenderPods
    \/ RenderNodes
    \/ RenderRealNodes

\* The collector from the start of main().
SpecCollect == InitCollect /\ [][NextCollect]_vars

\* ------------------------------------------------- collector, one cycle's data
\* The maps update_metrics computes and the text rendered from them.  The
\* metric values, floats in the code, are integers here; a quotient is kept
\* as a fraction in lowest terms.

RECURSIVE Gcd(_, _)
Gcd(a, b) == IF b = 0 THEN a ELSE Gcd(b, a % b)

\* a / b, b > 0.
Ratio(a, b) == LET g == Gcd(a, b) IN [num |-> a \div g, den |-> b \div g]

\* self.node_capacity.get(node, {'cpu': 16000, 'memory': 61440})
DefaultCapacity == [cpu |-> 16000, memory |-> 61440]

NodeCap(cfg, node) ==
    IF node \in DOMAIN cfg.node_capacity THEN cfg.node_capacity[node] ELSE DefaultCapacity

\* (raw / capacity * 100) if capacity > 0 else 0
Percent(raw, cap) == IF cap > 0 THEN Ratio(raw * 100, cap) ELSE Ratio(0, 1)

\* config['node_time_series'] of two samples.
RealSeries ==
    <<[node_cpu_load |-> 11, node_power |-> 12, node_psi |-> 13, node_memory |-> 50],
      [node_cpu_load |-> 21, node_power |-> 22, node_psi |-> 23, node_memory |-> 100]>>

\* What load_config takes from the config files the collector is run with.
CollectorConfigs ==
    {[mode |-> m, has_single_node |-> (m = "single"), node_name |-> "kwok-node-1",
      node_capacity |-> IF m = "single"
                        THEN [n \in {"kwok-node-1"} |-> [cpu |-> 1000, memory |-> 200]]
                        ELSE [n \in {"kwok-node-1", "kwok-node-2"} |->
                                 IF n = "kwok-node-1" THEN [cpu |-> 1000, memory |-> 200]
                                 ELSE [cpu |-> 0, memory |-> 0]],
      psi_aggregation |-> a,
      real_node_time_series |-> ts] :
        m \in {"single", "per_namespace"}, a \in {"sum", "max", "avg"},
        ts \in {<<>>, RealSeries}}

\* A pod as collect_pod_metrics_batch reads it: labels checked, node
\* resolved, the four annotations parsed.
ListedPod(ns, name, node, cpu, memory, power, psi) ==
    [namespace |-> ns, pod |-> name, node |-> node, cpu |-> cpu,
     memory |-> memory, power |-> power, psi |-> psi]

\* The eligible pods of a cycle, in the order they are listed.
PodListings ==
    {<<>>,
     <<ListedPod("ns1", "pod-1", "kwok-node-1", 100, 20, 5, 10)>>,
     <<ListedPod("ns1", "pod-1", "kwok-node-1", 100, 20, 5, 10),
       ListedPod("ns1", "pod-2", "kwok-node-1", 200, 40, 7, 20),
       ListedPod("liqo", "virtual-pod-001-dest", "kwok-node-1", 300, 60, 9, 30)>>,
     <<ListedPod("ns1", "pod-1", "kwok-node-1", 100, 20, 5, 30),
       ListedPod("ns2", "pod-1", "kwok-node-2", 50, 10, 1, 7),
       ListedPod("ns2", "pod-2", "kwok-node-1", 10, 5, 2, 4)>>}

\* The annotation emulation.metrics.k8s.io/time_index of the first pod.
Absent == [present |-> FALSE, text |-> <<>>]

TimeIndexAnnotations ==
    {Absent} \cup
    {[present |-> TRUE, text |-> t] :
        t \in {<<"1">>, <<"3">>, <<"-", "1">>, <<"1", ".", "5">>, <<>>}}

\* What read_namespaced_pod does: it returns, raises ApiException, or
\* raises another exception (the server cannot be reached).
ReadOutcomes == {"ok", "ApiException", "Exception"}

\* What the API server answers in one cycle.  The annotation is looked at
\* only when there is a first pod and read_namespaced_pod returns.
ClusterAnswers ==
    {c \in [pods : PodListings, read : ReadOutcomes, annotation : TimeIndexAnnotations] :
        /\ c.pods = <<>> => c.read = "ok"
        /\ c.read = "Exception" => Len(c.pods) = 1}

Looked(c) == c.pods # <<>> /\ c.read = "ok"

\* int(s) of Python does not raise ValueError: an optional sign and digits.
IsInteger(s) ==
    LET digits == IF s # <<>> /\ s[1] \in {"-", "+"} THEN Tail(s) ELSE s
    IN  /\ digits # <<>>
        /\ \A i \in 1..Len(digits) : \E d \in 1..10 : DigitChars[d] = digits[i]

\* int(s)
IntOf(s) ==
    IF s[1] = "-" THEN 0 - ParseInt(Tail(s))
    ELSE IF s[1] = "+" THEN ParseInt(Tail(s))
    ELSE ParseInt(s)

\* annotations.get('emulation.metrics.k8s.io/time_index', '0')
TimeIndexStr(c) == IF c.annotation.present THEN c.annotation.text ELSE <<"0">>

\* self.current_time_index after the try blocks of update_metrics.
NextTimeIndex(prev, pm, c) ==
    IF pm = <<>> THEN prev
    ELSE IF c.read # "ok" THEN prev
    ELSE IF IsInteger(TimeIndexStr(c)) THEN IntOf(TimeIndexStr(c))
    ELSE prev

\* collect_pod_metrics_batch: the entry of new_pod_metrics for a pod.
PodMetricsOf(cfg, p) ==
    [namespace |-> p.namespace, pod |-> p.pod, node |-> p.node,
     cpu |-> p.cpu, cpu_percent |-> Percent(p.cpu, NodeCap(cfg, p.node).cpu),
     memory |-> p.memory,
     memory_percent |-> Percent(p.memory, NodeCap(cfg, p.node).memory),
     power |-> p.power, psi |-> p.psi]

CollectPodMetrics(cfg, c) == [i \in 1..Len(c.pods) |-> PodMetricsOf(cfg, c.pods[i])]

\* ------------------------------------------------ aggregate_node_metrics

\* The keys of nodes_pods in the order they were inserted.
RECURSIVE NodesOf(_)
NodesOf(pm) ==
    IF pm = <<>> THEN <<>>
    ELSE LET rest == NodesOf(SubSeq(pm, 1, Len(pm) - 1))
             node == pm[Len(pm)].node
         IN  IF \E i \in 1..Len(rest) : rest[i] = node THEN rest ELSE Append(rest, node)

OnNode(p, node) == p.node = node

\* A grouping that would put every pod on every node.
PodsOnAnyNode(pm, node) == pm

\* nodes_pods[node]
PodsOn(pm, node) == SelectSeq(pm, LAMBDA p : OnNode(p, node))

\* sum(p[key] for p in pods)
RECURSIVE SumOver(_, _)
SumOver(q, key) == IF q = <<>> THEN 0 ELSE q[1][key] + SumOver(Tail(q), key)

\* max(p[key] for p in pods), pods not empty
MaxOver(q, key) == MaxOf({q[i][key] : i \in 1..Len(q)})

\* PSI of a node with the 'max' and 'avg' branches left out.
NodePsiSumOnly(q, policy) == Ratio(SumOver(q, "psi"), 1)

\* total_psi of a node under self.psi_aggregation.
NodePsi(q, policy) ==
    IF policy = "max" THEN (IF q # <<>> THEN Ratio(MaxOver(q, "psi"), 1) ELSE Ratio(0, 1))
    ELSE IF policy = "avg" THEN (IF q # <<>> THEN Ratio(SumOver(q, "psi"), Len(q)) ELSE Ratio(0, 1))
    ELSE Ratio(SumOver(q, "psi"), 1)

\* node_metrics[node]
NodeAggregate(cfg, node, q) ==
    [node |-> node,
     cpu_millicores |-> SumOver(q, "cpu"),
     cpu_percent |-> Percent(SumOver(q, "cpu"), NodeCap(cfg, node).cpu),
     memory_mi |-> SumOver(q, "memory"),
     memory_percent |-> Percent(SumOver(q, "memory"), NodeCap(cfg, node).memory),
     power_watts |-> SumOver(q, "power"),
     psi_percent |-> NodePsi(q, cfg.psi_aggregation),
     pod_count |-> Len(q)]

\* An entry of zeros for every node of the config that has no pod.
AggregateWithEmptyNodes(cfg, pm) ==
    LET with == NodesOf(pm)
        nodes == with \o SelectSeq(<<"kwok-node-1", "kwok-node-2">>,
                     LAMBDA n : n \in DOMAIN cfg.node_capacity
                                /\ \A i \in 1..Len(with) : with[i] # n)
    IN  [i \in 1..Len(nodes) |-> NodeAggregate(cfg, nodes[i], PodsOn(pm, nodes[i]))]

\* aggregate_node_metrics: an entry for every node that some pod is on.
AggregateNodeMetrics(cfg, pm) ==
    LET nodes == NodesOf(pm)
    IN  [i \in 1..Len(nodes) |-> NodeAggregate(cfg, nodes[i], PodsOn(pm, nodes[i]))]

\* ------------------------------------------------- get_real_node_metrics

\* The sample taken is always the first one.
RealSampleFirst(cfg, idx) == cfg.real_node_time_series[1]

\* real_node_time_series[current_time_index % len(real_node_time_series)]
RealSample(cfg, idx) ==
    cfg.real_node_time_series[(idx % Len(cfg.real_node_time_series)) + 1]

\* get_real_node_metrics: {} without a series; config['node_config']
\* ['single_node'] is a KeyError when the mode is not 'single'.
GetRealNodeMetrics(cfg, idx) ==
    IF cfg.real_node_time_series = <<>> THEN [raised |-> FALSE, map |-> <<>>]
    ELSE IF ~cfg.has_single_node THEN [raised |-> TRUE, map |-> <<>>]
    ELSE LET d == RealSample(cfg, idx)
         IN  [raised |-> FALSE,
              map |-> <<[node |-> cfg.node_name,
                         cpu_percent |-> d.node_cpu_load,
                         power_watts |-> d.node_power,
                         psi_percent |-> d.node_psi,
                         memory_percent |->
                             Percent(d.node_memory, NodeCap(cfg, cfg.node_name).memory)]>>]

\* ----------------------------------------------------- update_metrics

InitCycle ==
    /\ ManagerInit(0)
    /\ ReplayerIdle
    /\ ToolsIdle
    /\ collector \in CollectorConfigs
    /\ current_time_index = 0
    /\ cluster = [pods |-> <<>>, read |-> "ok", annotation |-> Absent]
    /\ index_before = 0
    /\ exposition = <<>>
    /\ cache_initialized = FALSE
    /\ metrics_lock = "none"
    /\ pod_metrics = <<>>
    /\ node_metrics = <<>>
    /\ real_node_metrics = <<>>
    /\ updater_pc = "sleep"
    /\ handler_pc = "idle"
    /\ cycle = 0
    /\ fresh = 0
    /\ rendered = NothingRendered
    /\ cache_cycles = {}
    /\ results = <<>>

\* An exception of read_namespaced_pod other than ApiException leaves the
\* inner try blocks of update_metrics.
ReadRaises(pm, c) == pm # <<>> /\ c.read = "Exception"

\* update_metrics ends in its 'except Exception'.
CycleRaises(cfg, prev, c) ==
    LET pm == CollectPodMetrics(cfg, c)
    IN  \/ ReadRaises(pm, c)
        \/ GetRealNodeMetrics(cfg, NextTimeIndex(prev, pm, c)).raised

\* An update_metrics that would store the pod map and the node map before
\* the steps that can raise.
StoredEarly(old, new, raised) == new

\* What a map is after the cycle: it is assigned, under the lock, only
\* when no step has raised.
Stored(old, new, raised) == IF raised THEN old ELSE new

\* One call of update_metrics, from the pods listed to the three maps
\* stored, as one step.  The time index is set before get_real_node_metrics
\* can raise; the maps are stored only when nothing raised.
UpdateMetricsData(c) ==
    /\ updater_pc = "sleep"
    /\ cycle < MaxCycles
    /\ Looked(c) \/ c.annotation = Absent
    /\ LET pm == CollectPodMetrics(collector, c)
           idx == NextTimeIndex(current_time_index, pm, c)
           real == GetRealNodeMetrics(collector, idx)
           raised == CycleRaises(collector, current_time_index, c)
       IN  /\ current_time_index' = idx
           /\ pod_metrics' = Stored(pod_metrics, pm, raised)
           /\ node_metrics' = Stored(node_metrics, AggregateNodeMetrics(collector, pm), raised)
           /\ real_node_metrics' = IF raised THEN real_node_metrics ELSE real.map
           /\ results' = Append(results, ~raised)
    /\ cluster' = c
    /\ index_before' = current_time_index
    /\ cycle' = cycle + 1
    /\ cache_initialized' = TRUE
    /\ cache_cycles' = IF cache_initialized THEN cache_cycles ELSE {cycle + 1}
    /\ exposition' = <<>>
    /\ updater_pc' = IF CycleRaises(collector, current_time_index, c) /\ cycle = 0
                      THEN "exit" ELSE "sleep"
    /\ UNCHANGED <<manager_vars, tools_vars, replay_vars, collector, metrics_lock,
                   handler_pc, fresh, rendered>>

\* ------------------------------------------------ get_prometheus_metrics

\* The metric groups in the order they are written: the maps their series
\* come from, the key of the value and whether it is written with :.2f.
MetricGroups ==
    <<[name |-> "emulation_pod_cpu_millicores", section |-> "pod", key |-> "cpu",
       fixed |-> FALSE, ratio |-> FALSE],
      [name |-> "emulation_pod_cpu_percent", section |-> "pod", key |-> "cpu_percent",
       fixed |-> TRUE, ratio |-> TRUE],
      [name |-> "emulation_pod_memory_mi", section |-> "pod", key |-> "memory",
       fixed |-> FALSE, ratio |-> FALSE],
      [name |-> "emulation_pod_memory_percent", section |-> "pod", key |-> "memory_percent",
       fixed |-> TRUE, ratio |-> TRUE],
      [name |-> "emulation_pod_power_watts", section |-> "pod", key |-> "power",
       fixed |-> FALSE, ratio |-> FALSE],
      [name |-> "emulation_pod_psi_percent", section |-> "pod", key |-> "psi",
       fixed |-> FALSE, ratio |-> FALSE],
      [name |-> "emulation_node_cpu_percent", section |-> "node", key |-> "cpu_percent",
       fixed |-> TRUE, ratio |-> TRUE],
      [name |-> "emulation_node_memory_percent", section |-> "node", key |-> "memory_percent",
       fixed |-> TRUE, ratio |-> TRUE],
      [name |-> "emulation_node_power_watts", section |-> "node", key |-> "power_watts",
       fixed |-> TRUE, ratio |-> FALSE],
      [name |-> "emulation_node_psi_percent", section |-> "node", key |-> "psi_percent",
       fixed |-> TRUE, ratio |-> TRUE],
      [name |-> "emulation_node_pod_count", section |-> "node", key |-> "pod_count",
       fixed |-> FALSE, ratio |-> FALSE],
      [name |-> "real_node_cpu_percent", section |-> "real", key |-> "cpu_percent",
       fixed |-> TRUE, ratio |-> FALSE],
      [name |-> "real_node_power_watts", section |-> "real", key |-> "power_watts",
       fixed |-> TRUE, ratio |-> FALSE],
      [name |-> "real_node_psi_percent", section |-> "real", key |-> "psi_percent",
       fixed |-> TRUE, ratio |-> FALSE],
      [name |-> "real_node_memory_percent", section |-> "real", key |-> "memory_percent",
       fixed |-> TRUE, ratio |-> TRUE]>>

\* The value of a group's key in hundredths, rounded to the nearest one;
\* ratio tells the groups whose value is a quotient.
Hundredths(g, v) ==
    IF g.ratio THEN (v.num * 200 + v.den) \div (2 * v.den) ELSE v * 100

\* A value as it is written: f"{v:.2f}" keeps hundredths, f"{v}" the value.
Written(g, m) == [fixed |-> g.fixed, hundredths |-> Hundredths(g, m[g.key])]

Newline == [kind |-> "newline", name |-> "", labels |-> <<>>, value |-> <<>>]

HelpLine(g) == [kind |-> "help", name |-> g.name, labels |-> <<>>, value |-> <<>>]

TypeLine(g) == [kind |-> "type", name |-> g.name, labels |-> <<>>, value |-> <<>>]

\* name{namespace="..",pod="..",node=".."} value, or name{node=".."} value
SeriesLine(g, m) ==
    [kind |-> "series", name |-> g.name,
     labels |-> IF g.section = "pod" THEN <<m.namespace, m.pod, m.node>> ELSE <<m.node>>,
     value |-> <<Written(g, m)>>]

\* The map a group's series are written from.
SectionMap(g, pm, nm, rm) ==
    IF g.section = "pod" THEN pm ELSE IF g.section = "node" THEN nm ELSE rm

\* A group is left out when the map of its section is empty.
GroupLinesOmitEmpty(g, map) ==
    IF map = <<>> THEN <<>>
    ELSE <<HelpLine(g), TypeLine(g)>> \o [i \in 1..Len(map) |-> SeriesLine(g, map[i])]

\* The lines of one group: # HELP, # TYPE, then a line for every entry.
GroupLines(g, map) ==
    <<HelpLine(g), TypeLine(g)>> \o [i \in 1..Len(map) |-> SeriesLine(g, map[i])]

RECURSIVE LinesFrom(_, _, _, _)
LinesFrom(k, pm, nm, rm) ==
    IF k > Len(MetricGroups) THEN <<>>
    ELSE GroupLines(MetricGroups[k], SectionMap(MetricGroups[k], pm, nm, rm))
         \o LinesFrom(k + 1, pm, nm, rm)

\* '\n'.join(lines)
RECURSIVE Join(_)
Join(lines) ==
    IF lines = <<>> THEN <<>>
    ELSE IF Len(lines) = 1 THEN lines
    ELSE Join(SubSeq(lines, 1, Len(lines) - 1)) \o <<Newline, lines[Len(lines)]>>

\* '\n'.join(lines) with nothing after the last line.
PrometheusTextUnterminated(pm, nm, rm) == Join(LinesFrom(1, pm, nm, rm))

\* get_prometheus_metrics: '\n'.join(lines) + '\n'
PrometheusText(pm, nm, rm) == Join(LinesFrom(1, pm, nm, rm)) \o <<Newline>>

\* do_GET of /metrics: the text of the maps as they are stored.
GetPrometheusMetrics ==
    /\ updater_pc = "sleep"
    /\ cycle > 0
    /\ exposition = <<>>
    /\ exposition' = PrometheusText(pod_metrics, node_metrics, real_node_metrics)
    /\ UNCHANGED <<manager_vars, tools_vars, replay_vars, collector, current_time_index, cluster,
                   index_before, cache_initialized, metrics_lock, pod_metrics,
                   node_metrics, real_node_metrics, updater_pc, handler_pc, cycle,
                   fresh, rendered, cache_cycles, results>>

NextCycle ==
    \/ \E c \in ClusterAnswers : UpdateMetricsData(c)
    \/ GetPrometheusMetrics

SpecCycle == InitCycle /\ [][NextCycle]_vars

\* ------------------------------------------------------------ reconciler
\* create_resources.py: nodes, namespaces and pods are created from the
\* configuration with kubectl, or deleted.  A resource is a record of its
\* kind, its namespace ("" for a node or a namespace) and its name.

MaxPasses == 2

Node(name) == [kind |-> "node", namespace |-> "", name |-> name]

Namespace(name) == [kind |-> "namespace", namespace |-> "", name |-> name]

Pod(ns, name) == [kind |-> "pod", namespace |-> ns, name |-> name]

\* The pods of a namespace, as 'delete pods --all -n ns' names them.
AllPodsOf(ns) == [kind |-> "pod", namespace |-> ns, name |-> "--all"]

\* config['node_config'], config['namespaces'] and config['pods'].
ConfigNodes == <<Node("kwok-node-1"), Node("kwok-node-2")>>

ConfigNamespaces == <<Namespace("ns1"), Namespace("ns2")>>

ConfigPods == <<Pod("ns1", "pod-1"), Pod("ns2", "pod-1")>>

RangeOf(q) == {q[i] : i \in 1..Len(q)}

\* The control planes the reconciler is started against: nothing of the
\* configuration, part of it, all of it.
ControlPlanes ==
    {{},
     {Node("kwok-node-1"), Namespace("ns1"), Pod("ns1", "pod-1")},
     RangeOf(ConfigNodes) \cup RangeOf(ConfigNamespaces) \cup RangeOf(ConfigPods)}

\* The command lines: --delete (answered yes) or not, --dry-run or not.
CreatorRuns == {[op |-> o, dry_run |-> d] : o \in {"create", "delete"}, d \in BOOLEAN}

\* How a kubectl command returns: with code 0 or not.
KubectlOutcomes == {"ok", "fail"}

\* The pods of the control plane in a namespace.
PodsIn(ns) == {r \in kube : r.kind = "pod" /\ r.namespace = ns}

\* resource_exists: 'get <type> <name> --ignore-not-found' returned 0 and
\* printed the name; under --dry-run nothing is run and stdout is ''.
resource_exists(r, lk) == ~creator.dry_run /\ lk = "ok" /\ r \in kube

\* get_existing_resources: the names printed, none when the command failed
\* or was not run.
get_existing_resources(S, lk) == IF ~creator.dry_run /\ lk = "ok" THEN S ELSE {}

\* What is said of a resource the reconciler has dealt with.
Said(r, existed, called, said) ==
    [res |-> r, existed |-> existed, called |-> called, said |-> said]

\* A command that changes the control plane; left are the pods of the
\* namespace that is being deleted.
Call(verb, r) ==
    [verb |-> verb, res |-> r,
     left |-> IF verb = "delete" /\ r.kind = "namespace" THEN PodsIn(r.name) ELSE {}]

\* A failed command of run_kubectl is passed over.
AfterFailedCommandGoOn(next) == next

\* run_kubectl with check=True: CalledProcessError is raised again, and
\* nothing between the caller and main catches it.
AfterFailedCommand(next) == "raised"

\* The loop after resource i of n, and the step that follows the loop.
After(loop, i, n, next) == IF i < n THEN loop ELSE next

InitReconcile ==
    /\ ManagerInit(0)
    /\ ReplayerIdle
    /\ CollectorIdle
    /\ CliIdle
    /\ MoreIdle
    /\ creator \in CreatorRuns
    /\ kube \in ControlPlanes
    /\ rc_pc = IF creator.op = "create" THEN "nodes" ELSE "delete_pods"
    /\ rc_i = 0
    /\ existing_namespaces = {}
    /\ calls = <<>>
    /\ reported = <<>>
    /\ passes = 0
    /\ kube_first = {}

\* create_node for the next node of the configuration.
CreateNode(lk, ap) ==
    /\ rc_pc = "nodes"
    /\ rc_i < Len(ConfigNodes)
    /\ LET r == ConfigNodes[rc_i + 1]
       IN  IF resource_exists(r, lk)
           THEN /\ reported' = Append(reported, Said(r, TRUE, FALSE, "skipped"))
                /\ UNCHANGED <<kube, calls>>
           ELSE IF creator.dry_run
           THEN /\ reported' = Append(reported, Said(r, r \in kube, FALSE, "created"))
                /\ UNCHANGED <<kube, calls>>
           ELSE /\ calls' = Append(calls, Call("apply", r))
                /\ IF ap = "ok"
                   THEN /\ kube' = kube \cup {r}
                        /\ reported' = Append(reported, Said(r, r \in kube, TRUE, "created"))
                   ELSE /\ kube' = kube
                        /\ reported' = Append(reported, Said(r, r \in kube, TRUE, "failed"))
    /\ rc_i' = rc_i + 1
    /\ UNCHANGED <<manager_vars, replay_vars, collect_vars, cli_vars, more_vars, creator, rc_pc,
                   existing_namespaces, passes, kube_first>>

\* The end of create_nodes, 'get nodes -l type=kwok', and the beginning of
\* create_namespaces, get_existing_resources('namespace').
NodesReady(out, lk) ==
    /\ rc_pc = "nodes"
    /\ rc_i = Len(ConfigNodes)
    /\ IF ~creator.dry_run /\ out = "fail"
       THEN /\ rc_pc' = AfterFailedCommand("namespaces")
            /\ UNCHANGED existing_namespaces
       ELSE /\ rc_pc' = "namespaces"
            /\ existing_namespaces' =
                   get_existing_resources({r \in kube : r.kind = "namespace"}, lk)
    /\ rc_i' = 0
    /\ UNCHANGED <<manager_vars, replay_vars, collect_vars, cli_vars, more_vars, creator, kube,
                   calls, reported, passes, kube_first>>

\* The body of the loop of create_namespaces; 'create namespace' fails by
\* itself for a namespace that is there.
CreateNamespace(out) ==
    /\ rc_pc = "namespaces"
    /\ rc_i < Len(ConfigNamespaces)
    /\ LET r == ConfigNamespaces[rc_i + 1]
           next == After("namespaces", rc_i + 1, Len(ConfigNamespaces), "pods")
       IN  IF r \in existing_namespaces
           THEN /\ reported' = Append(reported, Said(r, TRUE, FALSE, "skipped"))
                /\ rc_pc' = next
                /\ UNCHANGED <<kube, calls>>
           ELSE IF creator.dry_run
           THEN /\ reported' = Append(reported, Said(r, r \in kube, FALSE, "created"))
                /\ rc_pc' = next
                /\ UNCHANGED <<kube, calls>>
           ELSE /\ calls' = Append(calls, Call("create", r))
                /\ IF out = "ok" /\ r \notin kube
                   THEN /\ kube' = kube \cup {r}
                        /\ reported' = Append(reported, Said(r, FALSE, TRUE, "created"))
                        /\ rc_pc' = next
                   ELSE /\ kube' = kube
                        /\ reported' = Append(reported, Said(r, r \in kube, TRUE, "raised"))
                        /\ rc_pc' = AfterFailedCommand(next)
    /\ rc_i' = IF rc_i + 1 < Len(ConfigNamespaces) THEN rc_i + 1 ELSE 0
    /\ UNCHANGED <<manager_vars, replay_vars, collect_vars, cli_vars, more_vars, creator,
                   existing_namespaces, passes, kube_first>>

\* The body of the loop of create_pods, create_pod included: the pod is
\* looked up by the loop and again by create_pod; 'apply' fails by itself
\* when the namespace of the pod is not there.
CreatePod(lk, lk2, ap) ==
    /\ rc_pc = "pods"
    /\ rc_i < Len(ConfigPods)
    /\ LET r == ConfigPods[rc_i + 1]
       IN  IF resource_exists(r, lk)
           THEN /\ reported' = Append(reported, Said(r, TRUE, FALSE, "skipped"))
                /\ UNCHANGED <<kube, calls>>
           ELSE IF resource_exists(r, lk2)
           THEN /\ reported' = Append(reported, Said(r, TRUE, FALSE, "nothing"))
                /\ UNCHANGED <<kube, calls>>
           ELSE IF creator.dry_run
           THEN /\ reported' = Append(reported, Said(r, r \in kube, FALSE, "created"))
                /\ UNCHANGED <<kube, calls>>
           ELSE /\ calls' = Append(calls, Call("apply", r))
                /\ IF ap = "ok" /\ Namespace(r.namespace) \in kube
                   THEN /\ kube' = kube \cup {r}
                        /\ reported' = Append(reported, Said(r, r \in kube, TRUE, "created"))
                   ELSE /\ kube' = kube
                        /\ reported' = Append(reported, Said(r, r \in kube, TRUE, "failed"))
    /\ rc_i' = rc_i + 1
    /\ UNCHANGED <<manager_vars, replay_vars, collect_vars, cli_vars, more_vars, creator, rc_pc,
                   existing_namespaces, passes, kube_first>>

\* created_count and skipped_count of create_pods.
Count(said) ==
    Cardinality({i \in 1..Len(reported) :
                    reported[i].res.kind = "pod" /\ reported[i].said = said})

\* The end of create_pods and verify_resources: 'get pods' of each
\* namespace when a pod was created, then 'get nodes', both with check=True.
VerifyResources(out) ==
    /\ rc_pc = "pods"
    /\ rc_i = Len(ConfigPods)
    /\ IF ~creator.dry_run /\ out = "fail"
       THEN /\ rc_pc' = AfterFailedCommand("done")
            /\ UNCHANGED <<passes, kube_first>>
       ELSE /\ rc_pc' = "done"
            /\ passes' = passes + 1
            /\ kube_first' = IF passes = 0 THEN kube ELSE kube_first
    /\ UNCHANGED <<manager_vars, replay_vars, collect_vars, cli_vars, more_vars, creator, kube,
                   rc_i, existing_namespaces, calls, reported>>

\* The program is run again with the same command line.
RunAgain ==
    /\ rc_pc = "done"
    /\ creator.op = "create"
    /\ passes < MaxPasses
    /\ rc_pc' = "nodes"
    /\ rc_i' = 0
    /\ existing_namespaces' = {}
    /\ calls' = <<>>
    /\ reported' = <<>>
    /\ UNCHANGED <<manager_vars, replay_vars, collect_vars, cli_vars, more_vars, creator, kube,
                   passes, kube_first>>

\* delete_resources, first loop: the pods of the next namespace.
DeletePods(lk, out) ==
    /\ rc_pc = "delete_pods"
    /\ rc_i < Len(ConfigNamespaces)
    /\ LET ns == ConfigNamespaces[rc_i + 1].name
           next == After("delete_pods", rc_i + 1, Len(ConfigNamespaces), "delete_namespaces")
       IN  IF get_existing_resources(PodsIn(ns), lk) = {}
           THEN /\ rc_pc' = next
                /\ UNCHANGED <<kube, calls>>
           ELSE /\ calls' = Append(calls, Call("delete", AllPodsOf(ns)))
                /\ IF out = "ok"
                   THEN /\ kube' = kube \ PodsIn(ns)
                        /\ rc_pc' = next
                   ELSE /\ kube' = kube
                        /\ rc_pc' = AfterFailedCommand(next)
    /\ rc_i' = IF rc_i + 1 < Len(ConfigNamespaces) THEN rc_i + 1 ELSE 0
    /\ UNCHANGED <<manager_vars, replay_vars, collect_vars, cli_vars, more_vars, creator,
                   existing_namespaces, reported, passes, kube_first>>

\* delete_resources, second loop: the next namespace, and with it whatever
\* pods it still has.
DeleteNamespace(lk, out) ==
    /\ rc_pc = "delete_namespaces"
    /\ rc_i < Len(ConfigNamespaces)
    /\ LET r == ConfigNamespaces[rc_i + 1]
           next == After("delete_namespaces", rc_i + 1, Len(ConfigNamespaces), "delete_nodes")
       IN  IF ~resource_exists(r, lk)
           THEN /\ rc_pc' = next
                /\ UNCHANGED <<kube, calls>>
           ELSE /\ calls' = Append(calls, Call("delete", r))
                /\ IF out = "ok"
                   THEN /\ kube' = (kube \ {r}) \ PodsIn(r.name)
                        /\ rc_pc' = next
                   ELSE /\ kube' = kube
                        /\ rc_pc' = AfterFailedCommand(next)
    /\ rc_i' = IF rc_i + 1 < Len(ConfigNamespaces) THEN rc_i + 1 ELSE 0
    /\ UNCHANGED <<manager_vars, replay_vars, collect_vars, cli_vars, more_vars, creator,
                   existing_namespaces, reported, passes, kube_first>>

\* delete_resources, third loop: the next node.
DeleteNode(lk, out) ==
    /\ rc_pc = "delete_nodes"
    /\ rc_i < Len(ConfigNodes)
    /\ LET r == ConfigNodes[rc_i + 1]
           next == After("delete_nodes", rc_i + 1, Len(ConfigNodes), "done")
       IN  IF ~resource_exists(r, lk)
           THEN /\ rc_pc' = next
                /\ UNCHANGED <<kube, calls>>
           ELSE /\ calls' = Append(calls, Call("delete", r))
                /\ IF out = "ok"
                   THEN /\ kube' = kube \ {r}
                        /\ rc_pc' = next
                   ELSE /\ kube' = kube
                        /\ rc_pc' = AfterFailedCommand(next)
    /\ rc_i' = IF rc_i + 1 < Len(ConfigNodes) THEN rc_i + 1 ELSE 0
    /\ UNCHANGED <<manager_vars, replay_vars, collect_vars, cli_vars, more_vars, creator,
                   existing_namespaces, reported, passes, kube_first>>

NextReconcile ==
    \/ \E lk \in KubectlOutcomes, ap \in KubectlOutcomes : CreateNode(lk, ap)
    \/ \E out \in KubectlOutcomes, lk \in KubectlOutcomes : NodesReady(out, lk)
    \/ \E out \in KubectlOutcomes : CreateNamespace(out)
    \/ \E lk \in KubectlOutcomes, lk2 \in KubectlOutcomes, ap \in KubectlOutcomes :
           CreatePod(lk, lk2, ap)
    \/ \E out \in KubectlOutcomes : VerifyResources(out)
    \/ RunAgain
    \/ \E lk \in KubectlOutcomes, out \in KubectlOutcomes : DeletePods(lk, out)
    \/ \E lk \in KubectlOutcomes, out \in KubectlOutcomes : DeleteNamespace(lk, out)
    \/ \E lk \in KubectlOutcomes, out \in KubectlOutcomes : DeleteNode(lk, out)

SpecReconcile == InitReconcile /\ [][NextReconcile]_vars

\* ---------------------------------------------------- replayers, main()
\* The command line of a replayer from its arguments to its exit code.

\* The command lines: the program, --verify-only, --interval, whether the
\* config file can be loaded and the API server reached, and the answer
\* typed at the prompt of replay_metrics_opt.py.
CliRuns ==
    {[program |-> p, verify_only |-> v, interval |-> n, config_file |-> f,
      api |-> a, answer |-> w] :
        p \in {"rate_limited", "optimized", "virtual_pod"}, v \in BOOLEAN,
        n \in {0, 30}, f \in {"ok", "missing"}, a \in {"ok", "down"},
        w \in {"yes", "no"}}

InitCli ==
    /\ ManagerInit(0)
    /\ ReplayerIdle
    /\ CollectorIdle
    /\ ReconcilerIdle
    /\ MoreIdle
    /\ cli \in CliRuns
    /\ cli_pc = "args"
    /\ all_found = "unset"
    /\ exit_code = -1

\* sys.exit(code)
Exit(code) ==
    /\ cli_pc' = "exited"
    /\ exit_code' = code

\* A step of main that goes on to the next one.
Proceed(next) ==
    /\ cli_pc' = next
    /\ exit_code' = exit_code

\* The checks of the arguments after parse_args.
CheckArgs ==
    /\ cli_pc = "args"
    /\ IF cli.interval < 1 THEN Exit(1) ELSE Proceed("load_config")
    /\ UNCHANGED <<manager_vars, replay_vars, collect_vars, reconcile_vars, more_vars, cli, all_found>>

\* load_config
LoadConfig ==
    /\ cli_pc = "load_config"
    /\ IF cli.config_file # "ok" THEN Exit(1) ELSE Proceed("init_k8s_client")
    /\ UNCHANGED <<manager_vars, replay_vars, collect_vars, reconcile_vars, more_vars, cli, all_found>>

\* init_k8s_client
InitK8sClient ==
    /\ cli_pc = "init_k8s_client"
    /\ IF cli.api # "ok" THEN Exit(1) ELSE Proceed("verify_pods")
    /\ UNCHANGED <<manager_vars, replay_vars, collect_vars, reconcile_vars, more_vars, cli, all_found>>

\* verify_pods, verify_pod: True when every pod (every namespace, the pod)
\* was found.
VerifyPods(found) ==
    /\ cli_pc = "verify_pods"
    /\ all_found' = IF found THEN "True" ELSE "False"
    /\ Proceed("verified")
    /\ UNCHANGED <<manager_vars, replay_vars, collect_vars, reconcile_vars, more_vars, cli>>

\* What main does with the result of the verification.
AfterVerification ==
    /\ cli_pc = "verified"
    /\ IF cli.program = "rate_limited"
       THEN IF cli.verify_only THEN Exit(0) ELSE Proceed("run")
       ELSE IF cli.program = "optimized"
       THEN IF cli.verify_only
            THEN IF all_found = "True" THEN Exit(0) ELSE Exit(1)
            ELSE IF all_found # "True" /\ cli.answer # "yes" THEN Exit(1) ELSE Proceed("run")
       ELSE IF all_found # "True" THEN Exit(1)
            ELSE IF cli.verify_only THEN Exit(0) ELSE Proceed("run")
    /\ UNCHANGED <<manager_vars, replay_vars, collect_vars, reconcile_vars, more_vars, cli, all_found>>

\* run() returns, at the end of the replay or on Ctrl+C, and main with it.
RunReturns ==
    /\ cli_pc = "run"
    /\ Exit(0)
    /\ UNCHANGED <<manager_vars, replay_vars, collect_vars, reconcile_vars, more_vars, cli, all_found>>

NextCli ==
    \/ CheckArgs
    \/ LoadConfig
    \/ InitK8sClient
    \/ \E found \in BOOLEAN : VerifyPods(found)
    \/ AfterVerification
    \/ RunReturns

SpecCli == InitCli /\ [][NextCli]_vars

\* ------------------------------------------------------ metrics_updater
\* The background thread of the collector and the flag that stops it.  The
\* flag is set by the signal handler in the main thread, at any statement
\* of the updater.

\* --update-interval, the seconds between two update cycles.
UpdateIntervals == {0, 1, 2, 3}

InitUpdater ==
    /\ ManagerInit(0)
    /\ ReplayerIdle
    /\ CollectorIdle
    /\ ReconcilerIdle
    /\ CliIdle
    /\ update_interval \in UpdateIntervals
    /\ stop_flag = FALSE
    /\ thread_pc = "while"
    /\ slept = 0
    /\ begun = 0
    /\ begun_after_stop = 0
    /\ slept_after_stop = 0

\* 1 if the flag is set, for the counts of what begins after it.
AfterStop == IF stop_flag THEN 1 ELSE 0

\* The sleep loop never looks at the flag.
StopSeenInSleepLoopNever == FALSE

\* 'if stop_flag['stop']: break' in the sleep loop.
StopSeenInSleepLoop == stop_flag

\* signal_handler: stop_flag['stop'] = True
SetStop ==
    /\ ~stop_flag
    /\ thread_pc # "none"
    /\ stop_flag' = TRUE
    /\ UNCHANGED <<manager_vars, replay_vars, collect_vars, reconcile_vars, cli_vars,
                   update_interval, thread_pc, slept, begun, begun_after_stop,
                   slept_after_stop>>

\* while not stop_flag['stop']:
TestStop ==
    /\ thread_pc = "while"
    /\ stop_flag \/ begun < MaxCycles
    /\ thread_pc' = IF stop_flag THEN "stopped" ELSE "update"
    /\ UNCHANGED <<manager_vars, replay_vars, collect_vars, reconcile_vars, cli_vars,
                   update_interval, stop_flag, slept, begun, begun_after_stop,
                   slept_after_stop>>

\* collector.update_metrics() is called.
UpdateBegins ==
    /\ thread_pc = "update"
    /\ thread_pc' = "updating"
    /\ begun' = begun + 1
    /\ begun_after_stop' = begun_after_stop + AfterStop
    /\ UNCHANGED <<manager_vars, replay_vars, collect_vars, reconcile_vars, cli_vars,
                   update_interval, stop_flag, slept, slept_after_stop>>

\* collector.update_metrics() returns, True or False.
UpdateReturns ==
    /\ thread_pc = "updating"
    /\ thread_pc' = "for"
    /\ slept' = 0
    /\ UNCHANGED <<manager_vars, replay_vars, collect_vars, reconcile_vars, cli_vars,
                   update_interval, stop_flag, begun, begun_after_stop,
                   slept_after_stop>>

\* for _ in range(collector.update_interval): if stop_flag['stop']: break
SleepLoop ==
    /\ thread_pc = "for"
    /\ thread_pc' = IF slept >= update_interval THEN "while"
                    ELSE IF StopSeenInSleepLoop THEN "while"
                    ELSE "sleep"
    /\ UNCHANGED <<manager_vars, replay_vars, collect_vars, reconcile_vars, cli_vars,
                   update_interval, stop_flag, slept, begun, begun_after_stop,
                   slept_after_stop>>

\* time.sleep(1) is called.
SleepBegins ==
    /\ thread_pc = "sleep"
    /\ thread_pc' = "sleeping"
    /\ slept_after_stop' = slept_after_stop + AfterStop
    /\ UNCHANGED <<manager_vars, replay_vars, collect_vars, reconcile_vars, cli_vars,
                   update_interval, stop_flag, slept, begun, begun_after_stop>>

\* time.sleep(1) returns.
SleepReturns ==
    /\ thread_pc = "sleeping"
    /\ thread_pc' = "for"
    /\ slept' = slept + 1
    /\ UNCHANGED <<manager_vars, replay_vars, collect_vars, reconcile_vars, cli_vars,
                   update_interval, stop_flag, begun, begun_after_stop,
                   slept_after_stop>>

UpdaterStep ==
    \/ TestStop
    \/ UpdateBegins
    \/ UpdateReturns
    \/ SleepLoop
    \/ SleepBegins
    \/ SleepReturns

NextUpdater == UpdaterStep \/ SetStop

SpecUpdater == InitUpdater /\ [][NextUpdater]_vars

\* The thread is scheduled again and again; the signal may never come.
SpecUpdaterFair == SpecUpdater /\ WF_vars(UpdaterStep)

\* ------------------------------------------------- properties, replayers

\* The time indices 0, 1, ..., n - 1.
UpTo(n) == [k \in 1..n |-> k - 1]

IsPrefix(p, q) == Len(p) <= Len(q) /\ \A k \in 1..Len(p) : p[k] = q[k]

\* run() has ended otherwise than by Ctrl-C or an exception.
EndedNormally == main_pc = "done" /\ ~interrupted

C14_NoBatchStartsAfterStop ==
    [][interrupted =>
        /\ ticks' = ticks
        /\ \A f \in DOMAIN futures :
               futures[f].state = "queued" => futures'[f].state = "queued"]_vars

\* C15: at most maxConcurrent batches are between semaphore.acquire() and
\* semaphore.release() at any moment.
C15_AtMostMaxConcurrent ==
    Cardinality(Executing) <= replayer.max_concurrent

\* Two batches execute while a third waits in the queue.
C15_Witness ==
    /\ replayer.variant = "rate_limited"
    /\ replayer.max_concurrent = 2
    /\ Cardinality(Executing) = 2
    /\ \E f \in DOMAIN futures : futures[f].state = "queued"

\* The batches one after the other.
RECURSIVE Concat(_)
Concat(qs) == IF qs = <<>> THEN <<>> ELSE Head(qs) \o Concat(Tail(qs))

\* C16: the batches of a tick are contiguous, their concatenation is the
\* pod list, each has batch_size pods except the last, which has between 1
\* and batch_size; so every pod is in exactly one batch.
C16_ContiguousBatches ==
    main_pc = "wait" =>
        /\ Concat(pod_batches) = PodPositions
        /\ \A b \in 1..Len(pod_batches) :
               /\ Len(pod_batches[b]) >= 1
               /\ Len(pod_batches[b]) <= replayer.batch_size
               /\ b < Len(pod_batches) => Len(pod_batches[b]) = replayer.batch_size

\* 10 pods with batch_size 3 are split into batches of 3, 3, 3 and 1 pods.
C16_Witness ==
    /\ main_pc = "wait"
    /\ Len(replayer.pods) = 10
    /\ replayer.batch_size = 3
    /\ [b \in 1..Len(pod_batches) |-> Len(pod_batches[b])] = <<3, 3, 3, 1>>

\* All pods of the config.
AllPods == 1..Len(replayer.pods)

\* C17: when a tick reports, every pod has been attempted, success + failed
\* is the number of configured pods, and failed counts exactly the pods
\* whose patch did not succeed.
C17_CountsCoverAllPods ==
    report # <<>> =>
        /\ attempted = AllPods
        /\ report[1].success + report[1].failed = Len(replayer.pods)
        /\ report[1].failed = Cardinality(AllPods \ patched)

\* C18: the counters are read for the report when every work item of the
\* tick has finished, and the success count read is the number of patches
\* that succeeded in the tick.
C18_ReportedSuccessIsExact ==
    report # <<>> =>
        /\ AllDone
        /\ report[1].success = Cardinality(patched)

\* Two batches that ran side by side both succeeded, and the report says 3.
C18_Witness ==
    /\ report # <<>>
    /\ replayer.variant = "rate_limited"
    /\ replayer.max_concurrent = 2
    /\ report[1].success = 3
    /\ patched = {1, 2, 3}

\* ------------------------------------------------- properties, collector

\* Cycles whose three maps were stored.
Committed == {c \in 1..Len(results) : results[c]}

\* C19: whatever a rendering has read so far, pod lines, node lines and
\* real-node lines, comes from one and the same committed cycle.
C19_RenderFromOneCycle ==
    \A a \in {"pod", "node", "real"} :
        rendered[a] # -1 =>
            /\ rendered[a] \in Committed
            /\ \A b \in {"pod", "node", "real"} :
                   rendered[b] # -1 => rendered[b] = rendered[a]

\* A rendering has read the pod map of cycle 1 while the updater, holding
\* the maps of cycle 2, waits for the lock.
C19_Witness ==
    /\ handler_pc = "nodes"
    /\ rendered.pod = 1
    /\ updater_pc = "lock"
    /\ fresh = 2

\* C20: the cache-building pass runs in the first update cycle and in no
\* other, whatever the cycles return.
C20_CacheBuiltInFirstCycleOnly ==
    /\ cache_cycles \subseteq {1}
    /\ (cycle >= 1 /\ updater_pc # "cache") => cache_cycles = {1}

\* Three cycles have begun, the second one failed, and the pass ran in the
\* first only.
C20_Witness ==
    /\ cycle = 3
    /\ results = <<TRUE, FALSE>>
    /\ cache_cycles = {1}

\* ------------------------------------------- properties, one cycle's data

\* The first pod of the cycle was read and its time_index annotation is
\* not there, or is there and is not an integer.
AbsentOrUnparsable(c) ==
    /\ Looked(c)
    /\ \/ ~c.annotation.present
       \/ ~IsInteger(c.annotation.text)

\* C21: after an update cycle in which the time_index annotation of the
\* first pod is absent or is not parseable as an integer, the time index is
\* what it was before the cycle.
C21_IndexRetained ==
    (cycle > 0 /\ AbsentOrUnparsable(cluster)) => current_time_index = index_before

\* The last update cycle stored its maps.
LastCommitted == cycle > 0 /\ results[Len(results)]

\* The sample of a series of length L that an index stands for: the one
\* whose position differs from the index by a multiple of L.
SampleFor(series, idx) ==
    LET L == Len(series)
        k == CHOOSE k \in 0..(L - 1) : \E q \in -4..4 : idx = q * L + k
    IN  series[k + 1]

\* C22: with a real-node series of length L > 0, the real-node metrics a
\* cycle stores are those of the sample series[current_time_index mod L],
\* also for an index of L or more; without a series the map is empty.
C22_RealNodeFromSampleModL ==
    LastCommitted =>
        IF collector.real_node_time_series = <<>> THEN real_node_metrics = <<>>
        ELSE /\ Len(real_node_metrics) = 1
             /\ LET d == SampleFor(collector.real_node_time_series, current_time_index)
                    m == real_node_metrics[1]
                IN  /\ m.cpu_percent = d.node_cpu_load
                    /\ m.power_watts = d.node_power
                    /\ m.psi_percent = d.node_psi
                    /\ m.memory_percent.num * collector.node_capacity[m.node].memory
                           = m.memory_percent.den * d.node_memory * 100

\* The index is 3 with a series of two samples, and the second sample was
\* stored.
C22_Witness ==
    /\ LastCommitted
    /\ Len(collector.real_node_time_series) = 2
    /\ current_time_index = 3
    /\ Len(real_node_metrics) = 1
    /\ real_node_metrics[1].cpu_percent = 21

\* The pods of the stored pod map that are on a node.
StoredOn(node) == {i \in 1..Len(pod_metrics) : pod_metrics[i].node = node}

\* The total of a key over a set of stored pods.
RECURSIVE Total(_, _)
Total(S, key) ==
    IF S = {} THEN 0
    ELSE LET i == CHOOSE i \in S : TRUE
         IN  pod_metrics[i][key] + Total(S \ {i}, key)

\* What the PSI of a node over the stored pods S is under a policy.
IsPsiOf(psi, S, policy) ==
    IF policy = "max"
    THEN /\ \E i \in S : psi.num = pod_metrics[i].psi * psi.den
         /\ \A i \in S : psi.num >= pod_metrics[i].psi * psi.den
    ELSE IF policy = "avg"
    THEN psi.num * Cardinality(S) = Total(S, "psi") * psi.den
    ELSE psi.num = Total(S, "psi") * psi.den

\* C23: the aggregate of a node has the sums of CPU, memory and power of
\* the pods on it, their number as pod count, and as PSI their sum, their
\* maximum or their mean as the policy says; PSI values 10, 20, 30 give 60,
\* 30 and 20.
C23_NodeAggregateSumsAndPsi ==
    LastCommitted =>
        \A n \in 1..Len(node_metrics) :
            LET e == node_metrics[n]
                S == StoredOn(e.node)
            IN  /\ e.cpu_millicores = Total(S, "cpu")
                /\ e.memory_mi = Total(S, "memory")
                /\ e.power_watts = Total(S, "power")
                /\ e.pod_count = Cardinality(S)
                /\ IsPsiOf(e.psi_percent, S, collector.psi_aggregation)
                /\ {pod_metrics[i].psi : i \in S} = {10, 20, 30} /\ Cardinality(S) = 3
                       => e.psi_percent =
                              IF collector.psi_aggregation = "max" THEN [num |-> 30, den |-> 1]
                              ELSE IF collector.psi_aggregation = "avg" THEN [num |-> 20, den |-> 1]
                              ELSE [num |-> 60, den |-> 1]

\* Pods with PSI 10, 20 and 30 on one node were aggregated under 'avg'.
C23_Witness ==
    /\ LastCommitted
    /\ collector.psi_aggregation = "avg"
    /\ Len(node_metrics) = 1
    /\ node_metrics[1].pod_count = 3
    /\ node_metrics[1].psi_percent = [num |-> 20, den |-> 1]

\* The node map has an entry of zeros for a node.
HasZeroEntry(node) ==
    \E n \in 1..Len(node_metrics) :
        /\ node_metrics[n].node = node
        /\ node_metrics[n].cpu_millicores = 0
        /\ node_metrics[n].memory_mi = 0
        /\ node_metrics[n].power_watts = 0
        /\ node_metrics[n].psi_percent = [num |-> 0, den |-> 1]
        /\ node_metrics[n].pod_count = 0

GroupsOf(section) == {k \in 1..Len(MetricGroups) : MetricGroups[k].section = section}

\* Positions of the text where a line of a kind of a group is.
LinesAt(kind, k) ==
    {i \in 1..Len(exposition) :
        exposition[i].kind = kind /\ exposition[i].name = MetricGroups[k].name}

\* A text was rendered from the maps as they are now.
Rendered == exposition # <<>>

\* Every line of the text is ended by a newline and no line is empty.
WellTerminated ==
    /\ Len(exposition) % 2 = 0
    /\ \A i \in 1..Len(exposition) : (exposition[i] = Newline) <=> (i % 2 = 0)

\* Each group has its help line once and its type line right after it.
HeadersOf(k) ==
    /\ Cardinality(LinesAt("help", k)) = 1
    /\ Cardinality(LinesAt("type", k)) = 1
    /\ \A i \in LinesAt("help", k) : i + 2 \in LinesAt("type", k)

\* C25 as stated: with zero pods stored the text has the help line and the
\* type line of each group, no series line, and ends with a newline.
C25_ZeroPodsHeadersOnly ==
    (Rendered /\ pod_metrics = <<>>) =>
        /\ \A k \in 1..Len(MetricGroups) : HeadersOf(k) /\ LinesAt("series", k) = {}
        /\ exposition[Len(exposition)] = Newline

\* C25: with zero pods stored the text has the help line and the type line
\* of each group, no series line of a pod group or a node group, one series
\* line in each real-node group exactly when a real-node series is
\* configured, and every line, the last included, ends with a newline.
C25_ZeroPodsNoPodOrNodeSeries ==
    (Rendered /\ pod_metrics = <<>>) =>
        /\ \A k \in 1..Len(MetricGroups) : HeadersOf(k)
        /\ \A k \in GroupsOf("pod") \cup GroupsOf("node") : LinesAt("series", k) = {}
        /\ \A k \in GroupsOf("real") :
               Cardinality(LinesAt("series", k)) =
                   IF collector.real_node_time_series = <<>> THEN 0 ELSE 1
        /\ WellTerminated

\* A text of thirty header lines was rendered from a cycle without pods
\* and without a real-node series.
C25_Witness ==
    /\ Rendered
    /\ LastCommitted
    /\ pod_metrics = <<>>
    /\ real_node_metrics = <<>>
    /\ Len(exposition) = 60

\* The map of a section as it is stored.
StoredMap(section) ==
    IF section = "pod" THEN pod_metrics
    ELSE IF section = "node" THEN node_metrics ELSE real_node_metrics

\* C26 as stated: for a section whose map is empty the text has no line at
\* all of the groups of that section, neither help, type nor series.
C26_MissingSectionOmitted ==
    Rendered =>
        \A section \in {"pod", "node", "real"} :
            StoredMap(section) = <<>> =>
                \A k \in GroupsOf(section) :
                    LinesAt("help", k) \cup LinesAt("type", k) \cup LinesAt("series", k) = {}

\* C26: for a section whose map is empty the text still has the help line
\* and the type line of each group of that section, and no series line of
\* them; the rendering returns a text whatever maps are empty.
C26_MissingSectionHeadersOnly ==
    /\ Rendered =>
           \A section \in {"pod", "node", "real"} :
               StoredMap(section) = <<>> =>
                   \A k \in GroupsOf(section) : HeadersOf(k) /\ LinesAt("series", k) = {}
    /\ PrometheusText(pod_metrics, node_metrics, real_node_metrics) # <<>>

\* A text was rendered from a cycle with pods and without real-node data.
C26_Witness ==
    /\ Rendered
    /\ LastCommitted
    /\ pod_metrics # <<>>
    /\ real_node_metrics = <<>>
    /\ collector.real_node_time_series = <<>>

\* ------------------------------------------------- properties, reconciler

\* C27: of a node, namespace or pod that is in the control plane when its
\* creation comes up, no create or apply command is issued, it is reported
\* as skipped and nothing is raised; and a second creation pass leaves the
\* control plane as the first pass left it.
C27_ExistingSkippedSecondPassSame ==
    /\ \A i \in 1..Len(reported) :
           reported[i].existed =>
               /\ ~reported[i].called
               /\ reported[i].said = "skipped"
    /\ passes >= 2 => kube = kube_first

\* The resources of the configuration.
Configured == RangeOf(ConfigNodes) \cup RangeOf(ConfigNamespaces) \cup RangeOf(ConfigPods)

\* The reconciler has come to a resource's creation.
Attempted(r) == \E i \in 1..Len(reported) : reported[i].res = r

\* C28: a creation that fails does not end the run, so that a creation
\* pass comes to every resource of the configuration, and at its end the
\* pods created, skipped and failed are as many as the pods it came to.
C28_ContinuesAndCountsAddUp ==
    /\ \A i \in 1..Len(reported) : reported[i].said # "raised"
    /\ (creator.op = "create" /\ rc_pc = "done") =>
           /\ \A r \in Configured : Attempted(r)
           /\ Count("created") + Count("skipped") + Count("failed")
                  = Cardinality({i \in 1..Len(reported) : reported[i].res.kind = "pod"})

\* Pods are deleted first, namespaces second, nodes last.
Rank(kind) == IF kind = "pod" THEN 1 ELSE IF kind = "namespace" THEN 2 ELSE 3

\* No deletion is issued after a deletion of a later kind.
DeletionsInOrder ==
    \A i, j \in 1..Len(calls) :
        i < j => Rank(calls[i].res.kind) <= Rank(calls[j].res.kind)

\* The deletions of namespaces among the commands issued.
NamespaceDeletions == {j \in 1..Len(calls) : calls[j].res.kind = "namespace"}

C30_VerificationFailureExitsNonZero ==
    cli_pc = "exited" =>
        /\ all_found = "False" => exit_code # 0
        /\ exit_code = 0 => all_found = "True"

\* ------------------------------------------------ properties, updater

\* C31 as stated: once the flag is set the updater begins no update cycle.
C31_NoCycleAfterStop == begun_after_stop = 0

\* C31: once the flag is set the updater begins at most one more thing,
\* whatever the interval: either the update cycle whose loop test had
\* passed before the flag was set, or one one-second sleep; and it comes
\* to its end.
C31_StopsWithinOneStep ==
    /\ [](begun_after_stop + slept_after_stop <= 1)
    /\ (stop_flag ~> thread_pc = "stopped")

\* With an interval of three seconds the flag was set in the sleep loop,
\* one sleep began after it and the thread has ended before the second.
C31_Witness ==
    /\ update_interval = 3
    /\ thread_pc = "stopped"
    /\ slept_after_stop = 1
    /\ slept = 1

\* ===================================================== properties, delete
\* virtual_pod_manager.py, delete_virtual_pod and create_virtual_pod seen
\* from the registry.

\* The remote commands delete_virtual_pod issues for record vp, in order.
DeleteCommands(vp) ==
    (IF vp.replayer_pid # <<>>
     THEN <<[cmd |-> "kill", node |-> vp.dest_node, arg |-> vp.replayer_pid]>>
     ELSE <<>>)
    \o <<[cmd |-> "delete_pod", node |-> vp.source_node, arg |-> vp.source_pod_name],
         [cmd |-> "delete_pod", node |-> vp.dest_node, arg |-> vp.dest_pod_name],
         [cmd |-> "rm", node |-> vp.dest_node, arg |-> vp.time_series_file]>>

\* The commands issued so far by the running call, return codes left out.
IssuedCalls ==
    [k \in 1..Len(cmds) |-> [cmd |-> cmds[k].cmd, node |-> cmds[k].node, arg |-> cmds[k].arg]]

\* A delete of a record that is in the Registry is running or has ended.
Deleting == cur.op = "delete" /\ cur.vp # <<>>

\* C32: delete_virtual_pod issues kill, delete source pod, delete
\* destination pod, remove file in this order and removes the record from
\* the Registry only after all of them; while a remote step is running the
\* record is still in the Registry and on file.
C32_DeleteStepsInOrder ==
    Deleting =>
        /\ IsPrefix(IssuedCalls, DeleteCommands(Vp))
        /\ pc # "idle" =>
               /\ FindPod(registry, cur.target) = cur.vp
               /\ registry = before.registry
               /\ registry_file = before.file
        /\ FindPod(registry, cur.target) = <<>> =>
               /\ IssuedCalls = DeleteCommands(Vp)
               /\ registry_file = SavedFile(registry)
               /\ ret = "True"

\* A delete has issued its four commands, the last two failing, and removed
\* the record.
C32_Witness ==
    /\ Deleting
    /\ ret = "True"
    /\ Len(cmds) = 4
    /\ cmds[1].cmd = "kill"
    /\ cmds[4].rc # "0"
    /\ FindPod(registry, cur.target) = <<>>

\* The pid printed by the start command of the running create, as a
\* sequence of length 0 or 1.
StartedPids ==
    SelectSeq([k \in 1..Len(cmds) |-> IF cmds[k].cmd = "start_replayer" /\ cmds[k].rc = "0"
                                      THEN cmds[k].arg ELSE <<>>],
              LAMBDA a : a # <<>>)

\* C33: a create whose steps 1-6 all succeeded ends with True, with exactly
\* one record appended to the Registry as it was before the call, its id
\* vp-<next id>, its status running, its pid the one step 6 returned and
\* its interval the given one, and with the Registry saved; the Registry is
\* not touched before the replayer has been started.
C33_SuccessAppendsOneRecord ==
    cur.op = "create" =>
        /\ (pc = "idle" /\ steps = 1..6) =>
               /\ ret = "True"
               /\ Len(registry) = Len(before.registry) + 1
               /\ SubSeq(registry, 1, Len(before.registry)) = before.registry
               /\ LET vp == registry[Len(registry)]
                  IN  /\ vp.id = PodIdStr(GetNextPodId(before.registry))
                      /\ vp.status = "running"
                      /\ StartedPids = <<vp.replayer_pid>>
                      /\ vp.interval = cur.interval
               /\ registry_file = SavedFile(registry)
        /\ registry # before.registry =>
               /\ StartedPids # <<>>
               /\ cmds[Len(cmds)].cmd = "start_replayer"
        /\ ret = "True" => steps = 1..6

\* A create has returned True with the record vp-003 appended after vp-002.
C33_Witness ==
    /\ Ended("create", "True")
    /\ steps = 1..6
    /\ Len(registry) = 2
    /\ registry[1].id = <<"v", "p", "-", "0", "0", "2">>
    /\ registry[2].id = <<"v", "p", "-", "0", "0", "3">>
    /\ registry[2].replayer_pid # <<>>

\* A create or a delete has returned True.
ReturnedSuccess == pc = "idle" /\ cur.op \in {"create", "delete"} /\ ret = "True"

\* C36: after a create or a delete that returned True the registry file
\* holds a document whose list, read back, is the manager's in-memory list,
\* and a manager constructed next has exactly that list.
C36_FileEqualsMemoryAfterSuccess ==
    [][ReturnedSuccess =>
          /\ registry_file.state = "json"
          /\ Len(registry_file.doc) = Len(registry)
          /\ JsonLoad(registry_file.doc) = registry
          /\ cur'.op = "restart" => registry' = registry]_vars

\* A manager has been constructed after a delete that left one record out
\* of two, and has loaded that record.
C36_Witness ==
    /\ cur.op = "restart"
    /\ before.registry = registry
    /\ Len(registry) = 1
    /\ registry[1].id = <<"v", "p", "-", "0", "0", "2">>
    /\ registry_file = SavedFile(registry)

\* No record of reg has the id.
Unknown(reg, pod_id) == \A i \in 1..Len(reg) : reg[i].id # pod_id

\* C39: delete_virtual_pod of an id no record has returns False at once,
\* issues no remote command and leaves the nodes, the Registry and the
\* registry file as they are; after a delete that returned True the id is
\* unknown, so a second delete of it is such a call.
C39_UnknownIdDeleteHasNoEffect ==
    [][/\ (pc = "idle" /\ cur'.op = "delete" /\ Unknown(registry, cur'.target)) =>
              /\ pc' = "idle"
              /\ ret' = "False"
              /\ cmds' = <<>>
              /\ remote' = remote
              /\ registry' = registry
              /\ registry_file' = registry_file
       /\ Ended("delete", "True") => Unknown(registry, cur.target)]_vars

\* The second delete of vp-001 has returned False; a record and its pods
\* are still there.
C39_Witness ==
    /\ Ended("delete", "False")
    /\ cur.target = <<"v", "p", "-", "0", "0", "1">>
    /\ cur.target \in assigned
    /\ cmds = <<>>
    /\ Len(registry) = 1
    /\ pods # {}

\* reg without its k-th record.
WithoutIndex(reg, k) == SubSeq(reg, 1, k - 1) \o SubSeq(reg, k + 1, Len(reg))

\* C40: a create or a delete leaves every other record as it is and where
\* it is: during the call and after a failure the Registry is the one of
\* before the call, after a create that returned True the previous records
\* are a prefix of it with one record appended, and after a delete of id X
\* that returned True it is the previous list without the one record of X.
C40_OtherRecordsUntouched ==
    cur.op \in {"create", "delete"} =>
        /\ ret # "True" => registry = before.registry
        /\ (cur.op = "create" /\ ret = "True") =>
               /\ IsPrefix(before.registry, registry)
               /\ Len(registry) = Len(before.registry) + 1
               /\ Unknown(before.registry, registry[Len(registry)].id)
        /\ (cur.op = "delete" /\ ret = "True") =>
               \E k \in 1..Len(before.registry) :
                   /\ before.registry[k].id = cur.target
                   /\ registry = WithoutIndex(before.registry, k)
                   /\ Unknown(registry, cur.target)

\* The second of two records has been deleted and the first one is the
\* Registry.
C40_Witness ==
    /\ Ended("delete", "True")
    /\ Len(before.registry) = 2
    /\ cur.target = before.registry[2].id
    /\ registry = <<before.registry[1]>>

\* ================================================== properties, snapshot
\* expose_metrics.py: the three maps update_metrics stores.

\* The step is an update cycle that failed.
FailedCycleStep == cycle' = cycle + 1 /\ ~results'[Len(results')]

\* C37: an update cycle that fails stores nothing: the pod map, the node
\* map and the real-node map after it are those before it, that is those
\* of the last cycle that succeeded.
C37_FailedCycleKeepsSnapshot ==
    [][FailedCycleStep =>
          /\ pod_metrics' = pod_metrics
          /\ node_metrics' = node_metrics
          /\ real_node_metrics' = real_node_metrics]_vars

\* A cycle that listed other pods than the ones stored has failed after a
\* cycle that succeeded, and the stored maps are not empty.
C37_Witness ==
    /\ cycle >= 2
    /\ results[1]
    /\ ~results[Len(results)]
    /\ pod_metrics # <<>>
    /\ node_metrics # <<>>
    /\ real_node_metrics # <<>>
    /\ cluster.pods # <<>>
    /\ CollectPodMetrics(collector, cluster) # pod_metrics

\* C38: the stored node map is consistent with the stored pod map: it has
\* one entry for each node that a stored pod is on and for no other node,
\* the pod_count of an entry is the number of stored pods on its node, and
\* the pod_counts add up to the number of stored pods.
C38_NodeMapConsistentWithPodMap ==
    /\ \A n \in 1..Len(node_metrics) :
           /\ node_metrics[n].pod_count = Cardinality(StoredOn(node_metrics[n].node))
           /\ \E i \in 1..Len(pod_metrics) : pod_metrics[i].node = node_metrics[n].node
           /\ \A k \in 1..Len(node_metrics) :
                  node_metrics[k].node = node_metrics[n].node => k = n
    /\ \A i \in 1..Len(pod_metrics) :
           \E n \in 1..Len(node_metrics) : node_metrics[n].node = pod_metrics[i].node
    /\ SumOver(node_metrics, "pod_count") = Len(pod_metrics)

\* Three pods are stored, two on the first node and one on the second, and
\* a later cycle that listed one pod has failed.
C38_Witness ==
    /\ Len(pod_metrics) = 3
    /\ Len(node_metrics) = 2
    /\ node_metrics[1].pod_count = 2
    /\ node_metrics[2].pod_count = 1
    /\ node_metrics[2].node = "kwok-node-2"
    /\ cycle >= 2
    /\ ~results[Len(results)]

\* ===================================================== properties, pairs
\* virtual_pod_manager.py and the replay_virtual_pod.py processes it starts.

\* The pod is the source placeholder of some pair.
IsSourcePod(pod) == \E n \in 1..(MaxPodId + 1) : pod[2] = SourcePodName(n)

IsDestPod(pod) == \E n \in 1..(MaxPodId + 1) : pod[2] = DestPodName(n)

\* C34: the replayers patch destination pods only: as long as a source
\* placeholder pod exists, its metric annotations are the zeros it was
\* created with and it has no time_index annotation.
C34_SourcePodKeepsZeros ==
    /\ DOMAIN annotations = pods
    /\ \A pod \in pods : IsSourcePod(pod) => annotations[pod] = ZeroAnnotations
    /\ \A proc \in DOMAIN virtual_replayers : IsDestPod(<<proc[1], virtual_replayers[proc].pod_name>>)

\* Both pods of pair 1 are on node serf2; the replayer has patched the
\* destination pod with the second sample and the source pod has zeros.
C34_Witness ==
    /\ <<"serf2", SourcePodName(1)>> \in pods
    /\ <<"serf2", DestPodName(1)>> \in pods
    /\ annotations[<<"serf2", DestPodName(1)>>].cpu = <<"2", "5", "0", "m">>
    /\ annotations[<<"serf2", DestPodName(1)>>].time_index = <<"1">>
    /\ annotations[<<"serf2", SourcePodName(1)>>] = ZeroAnnotations
    /\ Len(registry) = 1

\* ==================================================== properties, patches
\* The patches of a tick, in the three replayers.

\* The index of the tick that is running or has run last.
TickIndex == ticks[Len(ticks)]

\* Pods whose series has no sample at the index of the tick.
TooShort == {p \in AllPods : TickIndex >= replayer.pods[p].time_series}

\* C35: in the tick with index t a patch is issued only for pods whose
\* series has more than t samples; it carries the sample at position t and
\* time_index = t in decimal digits; a pod with a shorter series gets no
\* patch, and when the tick reports its counters it is among the failed.
C35_PatchInRangeElseFailed ==
    ticks # <<>> =>
        /\ \A x \in patches :
               /\ x.pod \notin TooShort
               /\ LET sample == TimeSeries(replayer.pods[x.pod].time_series)[TickIndex + 1]
                  IN  /\ x.body.cpu = Str(sample.cpu) \o <<"m">>
                      /\ x.body.memory = Str(sample.memory) \o <<"M", "i">>
                      /\ x.body.power = Str(sample.power)
                      /\ x.body.psi = Str(sample.psi)
                      /\ ParseInt(x.body.time_index) = TickIndex
                      /\ Len(x.body.time_index) = 1
        /\ attempted = {x.pod : x \in patches}
        /\ report # <<>> =>
               /\ report[1].failed >= Cardinality(TooShort)
               /\ report[1].success + report[1].failed = Len(replayer.pods)

====
